---------------------------- MODULE Spec2Model ----------------------------
(***************************************************************************)
(* MailBridge: the form-submission pipeline of form_handler.py             *)
(* (validation, Layer A heuristics, Layer B behaviour profile, rate        *)
(* limiting, captcha, detached dispatch).                                  *)
(*                                                                         *)
(* Text is a sequence of one-character strings.  Python's None is the      *)
(* value None below, a sequence that no text can equal.  Time is counted   *)
(* in seconds and passes in steps of TickSeconds; every expiring key       *)
(* carries the seconds it has left.                                        *)
(*                                                                         *)
(* The poll loop of icloud_mail_daemon.py reads the unread messages of an  *)
(* inbox, one pass after the other, and replies to those that match.       *)
(*                                                                         *)
(* Specifications:                                                         *)
(*   Spec          requests served one after the other, dispatch tasks     *)
(*   SpecWindow    acceptable submissions with time passing                *)
(*   SpecConc      concurrent requests, one step per awaited store call    *)
(*   SpecValidate  validate() as a function of the fields                  *)
(*   SpecProfile   the submissions of each origin and their history        *)
(*   SpecOrigin    the origin check on Origin headers of every shape       *)
(*   SpecPoll      the poll loop, one step per message of a pass           *)
(*   SpecResolve   the matching of one message as a function of its text  *)
(*   SpecRoundTrip the subject of a submission, formatted and matched      *)
(*   SpecEntropy   _calculate_entropy in binary64 on short texts           *)
(*   SpecExpiry    one origin, its profile expiring between submissions    *)
(*   SpecThrottle  two origins on one channel and the answers they got     *)
(*   SpecInstance  the start and one poll turn for each INSTANCE_EMAILS    *)
(***************************************************************************)
EXTENDS Integers, Sequences, FiniteSets, TLC

VARIABLES
    redis,      \* the shared expiring store: key -> NoKey or [val, ttl]
    limiter,    \* slowapi's in-memory counters, one table per worker process
    tasks,      \* detached dispatch tasks started by asyncio.create_task
    last,       \* the request handled last, its response and its effects
    global_mode, \* config["global"]["mode"], read when the process starts
    ticks,      \* steps of time taken since the store was last empty of TTLs
    seen,       \* the (origin, channel key) pairs that have submitted so far
    inflight,   \* how many requests wait at each awaited store call (SpecConc)
    vsub,       \* the FormSubmission under validation (pure-function specification)
    vres,       \* what validate() did with vsub
    mailbox,    \* the inbox the daemon polls: message -> "absent", "unseen" or "seen"
    poll,       \* the poll loop: asleep or inside a pass, and the messages left in it
    replies,    \* how many replies were sent successfully for each message
    attempts,   \* how many times a reply was tried for each message, up to MaxAttempts
    handled     \* what the poll loop did last

\* the state of icloud_mail_daemon.py
daemon == <<mailbox, poll, replies, attempts, handled>>

vars ==
    <<global_mode, redis, limiter, tasks, last, ticks, seen, inflight, vsub, vres, daemon>>

---------------------------------------------------------------------------
(* Characters and text                                                     *)

LowerSeq == <<"a", "b", "c", "d", "e", "f", "g", "h", "i", "j", "k", "l", "m", "n", "o", "p",
    "q", "r", "s", "t", "u", "v", "w", "x", "y", "z">>
UpperSeq == <<"A", "B", "C", "D", "E", "F", "G", "H", "I", "J", "K", "L", "M", "N", "O", "P",
    "Q", "R", "S", "T", "U", "V", "W", "X", "Y", "Z">>

LowerSet == {LowerSeq[i] : i \in 1..26}
UpperSet == {UpperSeq[i] : i \in 1..26}
Letters == LowerSet \cup UpperSet
VowelSet == {"a", "e", "i", "o", "u"}
ConsonantSet == LowerSet \ VowelSet
Whitespace == {" ", "\t", "\n", "\r"}

None == <<"<None>">>

\* str.lower() on one character
LowerChar(c) == IF c \in UpperSet THEN LowerSeq[CHOOSE i \in 1..26 : UpperSeq[i] = c] ELSE c

\* str.lower()
Lower(text) == [i \in 1..Len(text) |-> LowerChar(text[i])]

\* c.isupper() and c.islower() on one character
IsUpper(c) == c \in UpperSet
IsLower(c) == c \in LowerSet

\* bool(text.strip()): some character is not whitespace
StripNonEmpty(text) == \E i \in 1..Len(text) : text[i] \notin Whitespace

\* sub in text
Contains(sub, text) ==
    \E i \in 1..(Len(text) - Len(sub) + 1) : \A j \in 1..Len(sub) : text[i + j - 1] = sub[j]

\* text.startswith(prefix)
StartsWith(text, prefix) ==
    /\ Len(prefix) <= Len(text)
    /\ \A j \in 1..Len(prefix) : text[j] = prefix[j]

\* re.sub(r'[^a-zA-Z]', '', text.lower())
Clean(text) == SelectSeq(Lower(text), LAMBDA c : c \in Letters)

\* len(re.sub(r'[aeiou]', '', clean)) and len(re.sub(r'[^aeiou]', '', clean))
CountIn(text, set) == Cardinality({i \in 1..Len(text) : text[i] \in set})
Consonants(clean) == CountIn(clean, Letters \ VowelSet)
Vowels(clean) == CountIn(clean, VowelSet)

\* re.search of a run of at least k characters of the class `set`
HasRun(text, set, k) ==
    \E i \in 1..(Len(text) - k + 1) : \A j \in 0..(k - 1) : text[i + j] \in set

\* re.search(r'(.)\1{2,}', text): three equal characters in a row
HasTriple(text) ==
    \E i \in 1..(Len(text) - 2) : text[i] = text[i + 1] /\ text[i + 1] = text[i + 2]

---------------------------------------------------------------------------
(* Shannon entropy.  log2 is computed in fixed point: Log2Fx(k) is         *)
(* log2(k) * 2^FracBits, by the shift-and-square method on a mantissa of   *)
(* MantBits bits; it is exact on powers of two and within 2 units          *)
(* elsewhere.  The entropy of a text of n characters, H, is kept as        *)
(* n * H * 2^FracBits, so thresholds are compared by cross-multiplying.    *)

FracBits == 10
MantBits == 14

FloorLog2(k) == CHOOSE e \in 0..30 : 2^e <= k /\ k < 2^(e + 1)

RECURSIVE Log2Frac(_, _)
Log2Frac(m, j) ==
    IF j = 0 THEN 0
    ELSE LET sq == (m * m) \div 2^MantBits
         IN  IF sq >= 2^(MantBits + 1)
             THEN 2^(j - 1) + Log2Frac(sq \div 2, j - 1)
             ELSE Log2Frac(sq, j - 1)

Log2Fx(k) ==
    LET e == FloorLog2(k)
    IN  e * 2^FracBits + Log2Frac((k * 2^MantBits) \div 2^e, FracBits)

\* Counter(text.lower()): the characters that occur, and how often
CharsOf(text) == {text[i] : i \in 1..Len(text)}
CountOf(text, c) == Cardinality({i \in 1..Len(text) : text[i] = c})

RECURSIVE SumCLogC(_, _)
SumCLogC(text, chars) ==
    IF chars = {} THEN 0
    ELSE LET c == CHOOSE x \in chars : TRUE
             n == CountOf(text, c)
         IN  n * Log2Fx(n) + SumCLogC(text, chars \ {c})

\* _calculate_entropy(text) * len(text) * 2^FracBits
\*   -sum p*log2(p) = log2(n) - (1/n) * sum c*log2(c)
_calculate_entropy(text) ==
    IF Len(text) < 2 THEN 0
    ELSE LET t == Lower(text)
         IN  Len(t) * Log2Fx(Len(t)) - SumCLogC(t, CharsOf(t))

\* entropy > tenths / 10
EntropyAbove(text, tenths) ==
    10 * _calculate_entropy(text) > tenths * Len(text) * 2^FracBits

---------------------------------------------------------------------------
(* Layer A: FormSubmission._is_spam and its helpers                        *)

common_words ==
    { <<"t", "h", "e">>, <<"a", "n", "d">>, <<"o", "r">>, <<"b", "u", "t">>, <<"i", "n">>,
      <<"o", "n">>, <<"a", "t">>, <<"t", "o">>, <<"f", "o", "r">>, <<"o", "f">>,
      <<"w", "i", "t", "h">>, <<"b", "y">>, <<"f", "r", "o", "m">>, <<"u", "p">>,
      <<"a", "b", "o", "u", "t">>, <<"i", "n", "t", "o">>, <<"t", "h", "r", "o", "u", "g", "h">>,
      <<"d", "u", "r", "i", "n", "g">>, <<"b", "e", "f", "o", "r", "e">>,
      <<"a", "f", "t", "e", "r">>, <<"a", "b", "o", "v", "e">>, <<"b", "e", "l", "o", "w">>,
      <<"b", "e", "t", "w", "e", "e", "n">>, <<"a", "m", "o", "n", "g">>,
      <<"w", "o", "u", "l", "d">>, <<"l", "i", "k", "e">>, <<"r", "e", "q", "u", "e", "s", "t">>,
      <<"a", "c", "c", "e", "s", "s">>, <<"p", "l", "a", "t", "f", "o", "r", "m">>,
      <<"p", "l", "e", "a", "s", "e">>, <<"t", "h", "a", "n", "k">>, <<"y", "o", "u">>,
      <<"y", "o", "u", "r">>, <<"h", "e", "l", "p">>, <<"n", "e", "e", "d">>,
      <<"w", "a", "n", "t">>, <<"g", "e", "t">>, <<"c", "a", "n">>, <<"w", "i", "l", "l">>,
      <<"s", "h", "o", "u", "l", "d">>, <<"c", "o", "u", "l", "d">>, <<"m", "a", "y">>,
      <<"m", "i", "g", "h", "t">>, <<"m", "u", "s", "t">>, <<"h", "a", "v", "e">>,
      <<"h", "a", "s">>, <<"h", "a", "d">>, <<"d", "o">>, <<"d", "o", "e", "s">>,
      <<"d", "i", "d">>, <<"b", "e">>, <<"a", "m">>, <<"i", "s">>, <<"a", "r", "e">>,
      <<"w", "a", "s">>, <<"w", "e", "r", "e">>, <<"b", "e", "e", "n">>,
      <<"b", "e", "i", "n", "g">> }

keyboard_patterns ==
    { <<"a", "s", "d", "f">>, <<"q", "w", "e", "r">>, <<"z", "x", "c", "v">>,
      <<"h", "j", "k", "l">>, <<"f", "d", "s", "a">>, <<"r", "e", "w", "q">>,
      <<"v", "c", "x", "z">>, <<"l", "k", "j", "h">> }

unusual_patterns ==
    { <<"q", "w", "e", "r", "t", "y">>, <<"a", "s", "d", "f", "g", "h">>,
      <<"z", "x", "c", "v", "b", "n">>, <<"q", "w", "e", "r">>, <<"a", "s", "d", "f">>,
      <<"z", "x", "c", "v">> }

suspicious_lengths == {8, 10, 12, 14, 16, 20, 24, 32}

word_count(text) == Cardinality({w \in common_words : Contains(w, Lower(text))})

_is_high_entropy_random(text) ==
    IF Len(text) < 6 THEN FALSE
    ELSE IF Len(text) > 15 /\ word_count(text) >= 3 THEN FALSE
    ELSE IF EntropyAbove(text, 38) /\ Len(text) >= 8 THEN TRUE
    ELSE IF /\ EntropyAbove(text, 36)
            /\ \E i \in 1..Len(text) : IsUpper(text[i])
            /\ \E i \in 1..Len(text) : IsLower(text[i])
         THEN TRUE
    ELSE FALSE

case_transitions(text) ==
    Cardinality({i \in 1..(Len(text) - 1) : IsUpper(text[i]) # IsUpper(text[i + 1])})

alternating_count(text) ==
    Cardinality({i \in 1..(Len(text) - 2) :
                    /\ IsUpper(text[i]) # IsUpper(text[i + 1])
                    /\ IsUpper(text[i + 1]) # IsUpper(text[i + 2])})

_has_suspicious_case_pattern(text) ==
    IF Len(text) < 8 THEN FALSE
    ELSE IF 10 * case_transitions(text) > 6 * (Len(text) - 1) THEN TRUE
    ELSE IF Len(text) > 2 /\ 10 * alternating_count(text) > 4 * (Len(text) - 2) THEN TRUE
    ELSE FALSE

_has_unusual_character_distribution(text) ==
    IF Len(text) < 6 THEN FALSE
    ELSE LET t == Lower(text)
         IN  \/ HasRun(t, ConsonantSet, 6)
             \/ HasRun(t, VowelSet, 5)
             \/ 10 * CountIn(t, {"q", "x", "z", "j", "k"}) > 4 * Len(text)
             \/ HasRun(t, ConsonantSet, 5)
             \/ HasRun(t, VowelSet, 4)
             \/ \E p \in unusual_patterns : Contains(p, t)

_is_random_length_pattern(text) ==
    IF Len(text) < 6 THEN FALSE
    ELSE Len(text) \in suspicious_lengths /\ EntropyAbove(text, 32)

\* consonants / (consonants + vowels) > tenths / 10, both present
ConsonantRatioAbove(clean, tenths) ==
    /\ Consonants(clean) > 0
    /\ Vowels(clean) > 0
    /\ 10 * Consonants(clean) > tenths * (Consonants(clean) + Vowels(clean))

_is_spam(self) ==
    LET name_clean == Clean(self.name)
        content_clean == Clean(self.content)
    IN  \/ Len(name_clean) > 3 /\ ConsonantRatioAbove(name_clean, 8)
        \/ Len(name_clean) > 5 /\ HasTriple(name_clean)
        \/ Len(content_clean) > 5 /\ ConsonantRatioAbove(content_clean, 8)
        \/ Len(content_clean) > 5 /\ HasTriple(content_clean)
        \/ /\ Len(name_clean) >= 3 /\ Len(name_clean) <= 8
           /\ Consonants(name_clean) >= 4 /\ Vowels(name_clean) <= 2
           /\ 10 * Consonants(name_clean) > 6 * (Consonants(name_clean) + Vowels(name_clean))
        \/ /\ Len(content_clean) >= 4 /\ Len(content_clean) <= 15
           /\ Consonants(content_clean) >= 5 /\ Vowels(content_clean) <= 3
           /\ 10 * Consonants(content_clean)
                  > 6 * (Consonants(content_clean) + Vowels(content_clean))
        \/ name_clean \in keyboard_patterns \/ content_clean \in keyboard_patterns
        \/ _is_high_entropy_random(name_clean) \/ _is_high_entropy_random(content_clean)
        \/ _has_suspicious_case_pattern(self.name)
        \/ _has_suspicious_case_pattern(self.content)
        \/ _has_unusual_character_distribution(name_clean)
        \/ _has_unusual_character_distribution(content_clean)
        \/ _is_random_length_pattern(name_clean) \/ _is_random_length_pattern(content_clean)

---------------------------------------------------------------------------
(* FormSubmission: construction by pydantic, then validate()               *)

\* text.split('@'): the pieces between the '@' signs
AtPositions(text) == {i \in 1..Len(text) : text[i] = "@"}

\* submission.email.split('@')[1] if '@' in submission.email else ''
EmailDomain(email) ==
    IF AtPositions(email) = {} THEN <<>>
    ELSE LET first == CHOOSE i \in AtPositions(email) : \A j \in AtPositions(email) : i <= j
             rest == {j \in AtPositions(email) : j > first}
             stop == IF rest = {} THEN Len(email) + 1
                     ELSE CHOOSE j \in rest : \A k \in rest : j <= k
         IN  SubSeq(email, first + 1, stop - 1)

\* What the EmailStr field type accepts: one '@', a local part, a dotted
\* domain, no whitespace, at most 254 characters.
IsEmailStr(value) ==
    /\ value # None
    /\ Len(value) <= 254
    /\ Cardinality(AtPositions(value)) = 1
    /\ \A i \in 1..Len(value) : value[i] \notin Whitespace
    /\ LET at == CHOOSE i \in AtPositions(value) : TRUE
           domain == SubSeq(value, at + 1, Len(value))
       IN  /\ at > 1
           /\ Len(domain) >= 3
           /\ Contains(<<".">>, domain)
           /\ domain[1] # "." /\ domain[Len(domain)] # "."
           /\ ~Contains(<<".", ".">>, domain)

\* EmailStr hands back the normalised address: the domain in lower case
EmailNormalized(value) ==
    LET at == CHOOSE i \in AtPositions(value) : TRUE
    IN  SubSeq(value, 1, at) \o Lower(SubSeq(value, at + 1, Len(value)))

\* FormSubmission(name=form_data.get("name"), ...): pydantic raises
\* ValidationError when a str field is None or the email is no EmailStr
FormSubmission(form_data) ==
    IF \/ form_data.name = None
       \/ ~IsEmailStr(form_data.email)
       \/ form_data.subject = None
       \/ form_data.content = None
    THEN [exc |-> "ValidationError"]
    ELSE [exc |-> "",
          name |-> form_data.name,
          email |-> EmailNormalized(form_data.email),
          subject |-> form_data.subject,
          content |-> form_data.content,
          captcha_token |-> form_data.captcha_token,
          website |-> form_data.website]

\* field rules that check for blank fields and for no length
FieldRulesUnbounded(self) ==
    IF ~StripNonEmpty(self.name) THEN "Invalid name"
    ELSE IF ~StripNonEmpty(self.email) \/ ~Contains(<<"@">>, self.email) THEN "Invalid email"
    ELSE IF ~StripNonEmpty(self.subject) THEN "Invalid subject"
    ELSE IF ~StripNonEmpty(self.content) THEN "Invalid content"
    ELSE "ok"


\* field rules that look at the email before the name
FieldRulesEmailFirst(self) ==
    IF \/ ~StripNonEmpty(self.email)
       \/ ~Contains(<<"@">>, self.email)
       \/ Len(self.email) > 254
    THEN "Invalid email"
    ELSE IF ~StripNonEmpty(self.name) \/ Len(self.name) > 100 THEN "Invalid name"
    ELSE IF ~StripNonEmpty(self.subject) \/ Len(self.subject) > 200 THEN "Invalid subject"
    ELSE IF ~StripNonEmpty(self.content) \/ Len(self.content) > 10000 THEN "Invalid content"
    ELSE "ok"

\* The four field rules of validate(), in the order of the code: the message of
\* the first ValueError raised, or "ok"
FieldRules(self) ==
    IF ~StripNonEmpty(self.name) \/ Len(self.name) > 100 THEN "Invalid name"
    ELSE IF \/ ~StripNonEmpty(self.email)
            \/ ~Contains(<<"@">>, self.email)
            \/ Len(self.email) > 254
         THEN "Invalid email"
    ELSE IF ~StripNonEmpty(self.subject) \/ Len(self.subject) > 200 THEN "Invalid subject"
    ELSE IF ~StripNonEmpty(self.content) \/ Len(self.content) > 10000 THEN "Invalid content"
    ELSE "ok"

\* a validate() that never looks at the honeypot
HoneypotIgnored(self) == FALSE

\* if self.website and self.website.strip()
HoneypotFilled(self) ==
    self.website # None /\ self.website # <<>> /\ StripNonEmpty(self.website)

\* FormSubmission.validate(): the message of the ValueError raised, or "ok"
validate(self) ==
    IF FieldRules(self) # "ok" THEN FieldRules(self)
    ELSE IF HoneypotFilled(self) THEN "Bot detected"
    ELSE IF _is_spam(self) THEN "Spam detected"
    ELSE "ok"

---------------------------------------------------------------------------
(* Layer B: the behaviour profile of an IP address                         *)

random_keyboard_patterns ==
    { <<"q", "w", "e", "r", "t", "y">>, <<"a", "s", "d", "f", "g", "h">>, <<"z", "x", "c", "v", "b", "n">>, <<"q", "w", "e", "r">>, <<"a", "s", "d", "f">>, <<"z", "x", "c", "v">> }

_is_random_looking_string(text) ==
    IF Len(text) < 6 THEN FALSE
    ELSE IF Len(text) > 15 /\ word_count(text) >= 3 THEN FALSE
    ELSE LET clean_text == Clean(text)
         IN  \/ Len(clean_text) >= 6 /\ EntropyAbove(clean_text, 35)
             \/ HasRun(clean_text, ConsonantSet, 6)
             \/ HasRun(clean_text, VowelSet, 5)
             \/ \E p \in random_keyboard_patterns : Contains(p, clean_text)

---------------------------------------------------------------------------
(* Configuration (config.yml) and the values requests are drawn from       *)

NameAlice == <<"A", "l", "i", "c", "e", " ", "E", "x", "a", "m", "p", "l", "e">>
NameBob == <<"B", "o", "b">>
NameSmash == <<"q", "w", "r", "t", "p", "s", "d", "f">>
\* a name and a body that pass every Layer A rule and that
\* _is_random_looking_string takes for random, twice
NameJacob == <<"J", "a", "c", "o", "b", " ", "S", "t", "e", "i", "n", "w", "a", "y">>
NameOlga == <<"O", "l", "g", "a", " ", "D", "m", "i", "t", "r", "e", "n", "k", "o">>
ContentDrain == <<"F", "i", "x", " ", "m", "y", " ", "b", "a", "t", "h", "t", "u", "b",
    " ", "d", "r", "a", "i", "n">>
ContentVinyl == <<"B", "u", "y", " ", "v", "i", "n", "y", "l", " ", "r", "e", "c", "o",
    "r", "d", "s", "?">>
EmailAlice == <<"a", "l", "i", "c", "e", "@", "e", "x", "a", "m", "p", "l", "e", ".", "c", "o",
    "m">>
EmailBob == <<"b", "o", "b", "@", "m", "a", "i", "l", ".", "o", "r", "g">>
EmailNoAt == <<"a", "l", "i", "c", "e", ".", "e", "x", "a", "m", "p", "l", "e", ".", "c", "o",
    "m">>
SubjectHello == <<"H", "e", "l", "l", "o">>
SubjectBlank == <<" ", " ">>
ContentCall == <<"P", "l", "e", "a", "s", "e", " ", "c", "a", "l", "l", " ", "m", "e", " ",
    "b", "a", "c", "k">>
ContentLoved == <<"J", "u", "s", "t", " ", "s", "a", "y", "i", "n", "g", " ", "h", "i",
    ",", " ", "l", "o", "v", "e", "d", " ", "t", "h", "e", " ", "s", "i", "t", "e", ".">>
ContentHello == <<"H", "e", "l", "l", "o", " ", "t", "h", "e", "r", "e">>
WebsiteSpam == <<"h", "t", "t", "p", ":", "/", "/", "s", "p", "a", "m", ".", "b", "i", "z">>
Token == <<"t", "o", "k">>
OriginExample == <<"h", "t", "t", "p", "s", ":", "/", "/", "e", "x", "a", "m", "p", "l", "e",
    ".", "c", "o", "m">>
OriginEvil == <<"h", "t", "t", "p", "s", ":", "/", "/", "e", "v", "i", "l", ".", "n", "e",
    "t">>
DomainExample == <<"e", "x", "a", "m", "p", "l", "e", ".", "c", "o", "m">>
MailHello == <<"h", "e", "l", "l", "o", "@", "e", "x", "a", "m", "p", "l", "e", ".", "c", "o",
    "m">>
MailSupport == <<"s", "u", "p", "p", "o", "r", "t", "@", "e", "x", "a", "m", "p", "l", "e",
    ".", "c", "o", "m">>
SchemeHttps == <<"h", "t", "t", "p", "s", ":", "/", "/">>
SchemeHttp == <<"h", "t", "t", "p", ":", "/", "/">>
Empty == <<>>

NoCaptcha == [provider |-> ""]

\* config["forms"], in the order of the file
forms ==
    << [key |-> "contact-key", to_email |-> <<MailHello>>, from_name |-> "Contact",
        allowed_domains |-> <<DomainExample>>, captcha |-> NoCaptcha],
       [key |-> "support-key", to_email |-> <<MailSupport>>, from_name |-> "Support",
        allowed_domains |-> <<DomainExample>>,
        captcha |-> [provider |-> "recaptcha", secret_key |-> "secret"]] >>

FormKeys == {forms[i].key : i \in 1..Len(forms)}
Modes == {"iCloud", "postmark"}
Workers == {1, 2}
Hosts == {"10.0.0.1"}
IPs == {"10.0.0.1", "10.0.0.2"}

\* f"behavior:{ip}" and f"rate_limit:{real_ip}:{form_key}"
BehaviorKey(ip) == <<"behavior", ip>>
RateKey(ip, form_key) == <<"rate_limit", ip, form_key>>
Keys == {BehaviorKey(ip) : ip \in IPs} \cup {RateKey(ip, k) : ip \in IPs, k \in FormKeys}

\* form fields as the client sent them
FormData(name, email, subject, content, captcha_token, website) ==
    [name |-> name, email |-> email, subject |-> subject, content |-> content,
     captcha_token |-> captcha_token, website |-> website]

\* the payloads requests are drawn from, by name
Payloads ==
    [ good      |-> FormData(NameAlice, EmailAlice, SubjectHello, ContentCall, None, None),
      scenario  |-> FormData(NameAlice, EmailAlice, SubjectHello, ContentLoved, None, None),
      bob       |-> FormData(NameBob, EmailBob, SubjectHello, ContentHello, None, Empty),
      token     |-> FormData(NameAlice, EmailAlice, SubjectHello, ContentCall, Token, None),
      noname    |-> FormData(None, EmailAlice, SubjectHello, ContentCall, None, None),
      noat      |-> FormData(NameAlice, EmailNoAt, SubjectHello, ContentCall, None, None),
      blank     |-> FormData(NameAlice, EmailAlice, SubjectBlank, ContentCall, None, None),
      smash     |-> FormData(NameSmash, EmailAlice, SubjectHello, ContentCall, None, None),
      honey     |-> FormData(NameAlice, EmailAlice, SubjectHello, ContentCall, None,
                             WebsiteSpam),
      honeytok  |-> FormData(NameBob, EmailBob, SubjectHello, ContentHello, Token,
                             WebsiteSpam),
      honeybad  |-> FormData(NameSmash, EmailAlice, SubjectBlank, ContentCall, None,
                             WebsiteSpam),
      honeynone |-> FormData(NameAlice, EmailAlice, None, ContentCall, None, WebsiteSpam),
      rnd1      |-> FormData(NameJacob, EmailAlice, SubjectHello, ContentDrain, None, None),
      rnd2      |-> FormData(NameOlga, EmailBob, SubjectHello, ContentVinyl, None, None) ]

PayloadNames == DOMAIN Payloads

\* a client: the address the connection comes from and the X-Forwarded-For
\* and X-Real-IP headers it carries ("" and <<>>: header absent)
Clients ==
    { [client_host |-> "10.0.0.1", x_forwarded_for |-> <<>>, x_real_ip |-> ""],
      [client_host |-> "10.0.0.1", x_forwarded_for |-> <<"10.0.0.2", "10.0.0.1">>,
       x_real_ip |-> ""],
      [client_host |-> "10.0.0.1", x_forwarded_for |-> <<>>, x_real_ip |-> "10.0.0.2"] }

\* a request: the worker process that serves it, the client, the path
\* parameter, the Origin header and the name of the payload it carries
Request(worker, client, form_key, origin, payload) ==
    [worker |-> worker, client_host |-> client.client_host,
     x_forwarded_for |-> client.x_forwarded_for, x_real_ip |-> client.x_real_ip,
     form_key |-> form_key, origin |-> origin, form |-> payload]

Origins == {None, Empty, OriginEvil, OriginExample}
Direct == CHOOSE c \in Clients : c.x_forwarded_for = <<>> /\ c.x_real_ip = ""

Proxied == Clients \ {Direct}

\* the requests of specification Spec, all served by worker 1: the direct
\* client with every payload on the form without captcha and with some on
\* the form with captcha, the clients behind a proxy, and the requests that
\* fail on the key or on the Origin header
Requests ==
    { Request(1, Direct, "contact-key", OriginExample, p) : p \in PayloadNames }
    \cup { Request(1, Direct, "support-key", OriginExample, p) :
             p \in {"good", "bob", "token", "noname", "honey", "honeytok"} }
    \cup { Request(1, c, "contact-key", OriginExample, p) :
             c \in Proxied, p \in {"good", "honey"} }
    \cup { Request(1, Direct, k, o, "good") :
             k \in FormKeys \cup {"no-such-key"}, o \in Origins }

\* what the captcha provider may answer when a request's token is verified;
\* requests to a form without captcha never ask it
ProviderAnswers(request) ==
    IF \E i \in 1..Len(forms) :
           forms[i].key = request.form_key /\ forms[i].captcha.provider = "recaptcha"
    THEN {"success", "failure", "error"}
    ELSE {"success"}

Texts == {Payloads[p].name : p \in PayloadNames} \cup {Payloads[p].content : p \in PayloadNames}

\* The values below are those of FormSubmission(), validate() and
\* _is_random_looking_string() on the fields requests are drawn from, each
\* computed once.
Submissions == [p \in PayloadNames |-> FormSubmission(Payloads[p])]
Validations ==
    [p \in PayloadNames |-> IF Submissions[p].exc = "" THEN validate(Submissions[p]) ELSE ""]
RandomLooking == [t \in Texts \ {None} |-> _is_random_looking_string(t)]

---------------------------------------------------------------------------
(* Layer B, continued: the profile update                                  *)

\* the pattern_data of an IP seen for the first time; email_domains is a
\* Python set here, and a list in every profile read back from the store
NewPatternData ==
    [submissions |-> <<>>,
     random_names |-> 0,
     random_content |-> 0,
     email_domains |-> [kind |-> "set", elems |-> {}]]

\* json.loads(existing_data) if existing_data else the new pattern_data
LoadPatternData(existing) == IF existing.found THEN existing.val ELSE NewPatternData


\* as lines 406-435, with the name counter moved by every submission,
\* random-looking or not
UpdatePatternDataCounted(pattern_data, submission) ==
    LET is_random_name == RandomLooking[submission.name]
        is_random_content == RandomLooking[submission.content]
        entry == [name |-> submission.name,
                  email |-> submission.email,
                  content |-> submission.content,
                  is_random_name |-> is_random_name,
                  is_random_content |-> is_random_content]
        appended == Append(pattern_data.submissions, entry)
    IN  IF pattern_data.email_domains.kind # "set"
        THEN [exc |-> "AttributeError"]
        ELSE [exc |-> "",
              pattern_data |->
                [submissions |->
                    IF Len(appended) > 10
                    THEN SubSeq(appended, Len(appended) - 9, Len(appended))
                    ELSE appended,
                 random_names |-> pattern_data.random_names + 1,
                 random_content |->
                    pattern_data.random_content + (IF is_random_content THEN 1 ELSE 0),
                 email_domains |->
                    [kind |-> "list",
                     elems |-> pattern_data.email_domains.elems
                                  \cup {EmailDomain(submission.email)}]]]

\* Lines 406-435: count the random patterns, add the email domain, append the
\* entry, keep the last 10, turn the set into a list.  list has no add():
\* a profile read back from the store raises AttributeError at line 418.
UpdatePatternData(pattern_data, submission) ==
    LET is_random_name == RandomLooking[submission.name]
        is_random_content == RandomLooking[submission.content]
        entry == [name |-> submission.name,
                  email |-> submission.email,
                  content |-> submission.content,
                  is_random_name |-> is_random_name,
                  is_random_content |-> is_random_content]
        appended == Append(pattern_data.submissions, entry)
    IN  IF pattern_data.email_domains.kind # "set"
        THEN [exc |-> "AttributeError"]
        ELSE [exc |-> "",
              pattern_data |->
                [submissions |->
                    IF Len(appended) > 10
                    THEN SubSeq(appended, Len(appended) - 9, Len(appended))
                    ELSE appended,
                 random_names |-> pattern_data.random_names + (IF is_random_name THEN 1 ELSE 0),
                 random_content |->
                    pattern_data.random_content + (IF is_random_content THEN 1 ELSE 0),
                 email_domains |->
                    [kind |-> "list",
                     elems |-> pattern_data.email_domains.elems
                                  \cup {EmailDomain(submission.email)}]]]


\* the verdict of lines 440-462 without the wait for a second submission
SuspiciousPatternFromFirst(pattern_data) ==
    LET total_submissions == Len(pattern_data.submissions)
    IN  /\ total_submissions >= 1
        /\ \/ /\ 10 * pattern_data.random_names >= 8 * total_submissions
              /\ 10 * pattern_data.random_content >= 8 * total_submissions
              /\ Cardinality(pattern_data.email_domains.elems) >= 2
           \/ 10 * pattern_data.random_content >= 9 * total_submissions

\* Lines 440-462: the verdict on the saved pattern_data
\*   ratio >= 0.8 is 10 * count >= 8 * total, ratio >= 0.9 is 10 * count >= 9 * total
SuspiciousPattern(pattern_data) ==
    LET total_submissions == Len(pattern_data.submissions)
    IN  /\ total_submissions >= 2
        /\ \/ /\ 10 * pattern_data.random_names >= 8 * total_submissions
              /\ 10 * pattern_data.random_content >= 8 * total_submissions
              /\ Cardinality(pattern_data.email_domains.elems) >= 2
           \/ 10 * pattern_data.random_content >= 9 * total_submissions

---------------------------------------------------------------------------
(* The shared expiring store (Redis): get, setex, incr, expire             *)

NoKey == [found |-> FALSE]
NoExpiry == -1

redis_get(rs, key) == IF rs[key].found THEN [found |-> TRUE, val |-> rs[key].val] ELSE NoKey

redis_setex(rs, key, seconds, value) ==
    [rs EXCEPT ![key] = [found |-> TRUE, val |-> value, ttl |-> seconds]]

\* INCR: a missing key counts from 0 and gets no expiry; an existing key keeps its own
redis_incr(rs, key) ==
    [rs EXCEPT ![key] = IF rs[key].found
                        THEN [found |-> TRUE, val |-> rs[key].val + 1, ttl |-> rs[key].ttl]
                        ELSE [found |-> TRUE, val |-> 1, ttl |-> NoExpiry]]

redis_expire(rs, key, seconds) ==
    [rs EXCEPT ![key] = IF rs[key].found
                        THEN [found |-> TRUE, val |-> rs[key].val, ttl |-> seconds]
                        ELSE rs[key]]

\* `seconds` of time pass: every key with an expiry loses them and is gone at 0
Elapse(table, seconds) ==
    [k \in DOMAIN table |->
        IF ~table[k].found \/ table[k].ttl = NoExpiry THEN table[k]
        ELSE IF table[k].ttl <= seconds THEN NoKey
        ELSE [table[k] EXCEPT !.ttl = @ - seconds]]

---------------------------------------------------------------------------
(* submit_form                                                             *)

\* @limiter.limit("5/minute"), key_func=get_remote_address: a fixed window of
\* 60 seconds from the first hit, kept in the memory of the worker process
limiter_hit(table, host) ==
    IF table[host].found /\ table[host].val >= 5
    THEN [ok |-> FALSE, table |-> table]
    ELSE [ok |-> TRUE,
          table |-> [table EXCEPT ![host] =
                        IF table[host].found
                        THEN [table[host] EXCEPT !.val = @ + 1]
                        ELSE [found |-> TRUE, val |-> 1, ttl |-> 60]]]

\* the loop of lines 546-550: the first form whose key is form_key
find_form(form_key) ==
    LET hits == {i \in 1..Len(forms) : forms[i].key = form_key}
    IN  IF hits = {} THEN [found |-> FALSE]
        ELSE [found |-> TRUE, config |-> forms[CHOOSE i \in hits : \A j \in hits : i <= j]]

\* text.replace(old, ""), left to right
RECURSIVE Remove(_, _)
Remove(text, old) ==
    IF Len(text) < Len(old) THEN text
    ELSE IF StartsWith(text, old) THEN Remove(SubSeq(text, Len(old) + 1, Len(text)), old)
    ELSE <<text[1]>> \o Remove(Tail(text), old)


\* an origin check that looks for the origin's domain inside an allowed domain
origin_in_allowed(form_config, origin) ==
    LET origin_domain == Remove(Remove(origin, SchemeHttps), SchemeHttp)
    IN  \E i \in 1..Len(form_config.allowed_domains) :
            Contains(origin_domain, form_config.allowed_domains[i])

\* lines 561-565
origin_allowed(form_config, origin) ==
    LET origin_domain == Remove(Remove(origin, SchemeHttps), SchemeHttp)
    IN  \E i \in 1..Len(form_config.allowed_domains) :
            Contains(form_config.allowed_domains[i], origin_domain)

\* get_real_ip: X-Forwarded-For's first entry, else X-Real-IP, else the peer
get_real_ip(request) ==
    IF request.x_forwarded_for # <<>> THEN request.x_forwarded_for[1]
    ELSE IF request.x_real_ip # "" THEN request.x_real_ip
    ELSE request.client_host

NoTask == [backend |-> ""]

\* what the handler leaves behind: the response, the stores, the calls it
\* made in order, and the dispatch task it started
Reply(status, detail, rs, lim, trace, task) ==
    [status |-> status, detail |-> detail, redis |-> rs, limiter |-> lim,
     trace |-> trace, task |-> task]

\* a dispatch that is awaited and whose failure becomes the response
DispatchAwaited(mode, rs, lim, trace) ==
    Reply(500, "Internal Server Error", rs, lim, Append(trace, "create_task"),
          [backend |-> IF mode = "postmark" THEN "postmark" ELSE "icloud"])

\* lines 631-640: one detached task on the backend the mode names, then success
Dispatch(mode, rs, lim, trace) ==
    Reply(200, "Form submitted successfully", rs, lim, Append(trace, "create_task"),
          [backend |-> IF mode = "postmark" THEN "postmark" ELSE "icloud"])

\* a captcha stage that answers 400 on a failed verification and dispatches
\* all the same
CaptchaThenDispatch(mode, form_config, submission, verify, rs, lim, trace) ==
    [Dispatch(mode, rs, lim, Append(trace, "verify_recaptcha_v3"))
        EXCEPT !.status = IF verify = "success" THEN 200 ELSE 400,
               !.detail = IF verify = "success" THEN @ ELSE "Invalid reCAPTCHA token"]


\* a captcha stage that wants a token and never asks the provider about it
CaptchaUnverified(mode, form_config, submission, verify, rs, lim, trace) ==
    IF form_config.captcha.provider # "recaptcha" THEN Dispatch(mode, rs, lim, trace)
    ELSE IF submission.captcha_token = None \/ submission.captcha_token = <<>>
         THEN Reply(400, "reCAPTCHA token required", rs, lim, trace, NoTask)
    ELSE Dispatch(mode, rs, lim, Append(trace, "verify_recaptcha_v3"))

\* lines 617-629; verify is what the provider call does: "success",
\* "failure", or "error" when the call itself raises
Captcha(mode, form_config, submission, verify, rs, lim, trace) ==
    IF form_config.captcha.provider # "recaptcha" THEN Dispatch(mode, rs, lim, trace)
    ELSE IF submission.captcha_token = None \/ submission.captcha_token = <<>>
         THEN Reply(400, "reCAPTCHA token required", rs, lim, trace, NoTask)
    ELSE IF verify = "error"
         THEN Reply(500, "Internal Server Error", rs, lim,
                    Append(trace, "verify_recaptcha_v3"), NoTask)
    ELSE IF verify = "failure"
         THEN Reply(400, "Invalid reCAPTCHA token", rs, lim,
                    Append(trace, "verify_recaptcha_v3"), NoTask)
    ELSE Dispatch(mode, rs, lim, Append(trace, "verify_recaptcha_v3"))

\* a rate limit that counts a submission only once its captcha stage has
\* let it through
RateLimitCounted(mode, form_config, submission, verify, key, rs, lim, trace) ==
    LET current == redis_get(rs, key)
        checked == Captcha(mode, form_config, submission, verify, rs, lim,
                           Append(trace, "rate.get"))
    IN  IF current.found /\ current.val >= 5
        THEN Reply(429, "Too many requests", rs, lim, Append(trace, "rate.get"), NoTask)
        ELSE IF checked.status # 200 THEN checked
        ELSE [checked EXCEPT !.redis = redis_expire(redis_incr(rs, key), key, 60)]

\* lines 609-615
RateLimit(mode, form_config, submission, verify, key, rs, lim, trace) ==
    LET current == redis_get(rs, key)
    IN  IF current.found /\ current.val >= 5
        THEN Reply(429, "Too many requests", rs, lim, Append(trace, "rate.get"), NoTask)
        ELSE Captcha(mode, form_config, submission, verify,
                     redis_expire(redis_incr(rs, key), key, 60), lim,
                     trace \o <<"rate.get", "rate.incr", "rate.expire">>)

\* lines 604-607 with _is_suspicious_behavior
Behavior(mode, form_config, submission, verify, real_ip, form_key, rs, lim, trace) ==
    LET pattern_key == BehaviorKey(real_ip)
        updated == UpdatePatternData(LoadPatternData(redis_get(rs, pattern_key)), submission)
        saved == redis_setex(rs, pattern_key, 86400, updated.pattern_data)
    IN  IF updated.exc # ""
        THEN Reply(500, "Internal Server Error", rs, lim,
                   Append(trace, "behavior.get"), NoTask)
        ELSE IF SuspiciousPattern(updated.pattern_data)
        THEN Reply(400, "Suspicious submission pattern detected", saved, lim,
                   trace \o <<"behavior.get", "behavior.setex">>, NoTask)
        ELSE RateLimit(mode, form_config, submission, verify, RateKey(real_ip, form_key),
                       saved, lim, trace \o <<"behavior.get", "behavior.setex">>)


\* a handler that hands the message of validate()'s ValueError to the client
HandlerDisclosing(request, mode, verify, rs, lim) ==
    LET form == find_form(request.form_key)
        submission == Submissions[request.form]
    IN  IF ~form.found THEN Reply(404, "Form not found", rs, lim, <<>>, NoTask)
        ELSE IF request.origin = None \/ request.origin = <<>>
        THEN Reply(403, "Origin header required", rs, lim, <<>>, NoTask)
        ELSE IF ~origin_allowed(form.config, request.origin)
        THEN Reply(403, "Origin not allowed", rs, lim, <<>>, NoTask)
        ELSE IF submission.exc # ""
        THEN Reply(500, "Internal Server Error", rs, lim, <<>>, NoTask)
        ELSE IF Validations[request.form] # "ok"
        THEN Reply(400, Validations[request.form], rs, lim, <<"validate">>, NoTask)
        ELSE Behavior(mode, form.config, submission, verify, get_real_ip(request),
                      request.form_key, rs, lim, <<"validate">>)

\* lines 542-602
Handler(request, mode, verify, rs, lim) ==
    LET form == find_form(request.form_key)
        submission == Submissions[request.form]
    IN  IF ~form.found THEN Reply(404, "Form not found", rs, lim, <<>>, NoTask)
        ELSE IF request.origin = None \/ request.origin = <<>>
        THEN Reply(403, "Origin header required", rs, lim, <<>>, NoTask)
        ELSE IF ~origin_allowed(form.config, request.origin)
        THEN Reply(403, "Origin not allowed", rs, lim, <<>>, NoTask)
        ELSE IF submission.exc # ""
        THEN Reply(500, "Internal Server Error", rs, lim, <<>>, NoTask)
        ELSE IF Validations[request.form] # "ok"
        THEN Reply(400, "Invalid form submission", rs, lim, <<"validate">>, NoTask)
        ELSE Behavior(mode, form.config, submission, verify, get_real_ip(request),
                      request.form_key, rs, lim, <<"validate">>)

\* the route as served: slowapi's limit first, then the handler
submit_form(request, mode, verify, rs, lim) ==
    LET hit == limiter_hit(lim[request.worker], request.client_host)
    IN  IF ~hit.ok
        THEN Reply(429, "Rate limit exceeded: 5 per 1 minute", rs, lim, <<>>, NoTask)
        ELSE Handler(request, mode, verify, rs,
                     [lim EXCEPT ![request.worker] = hit.table])


---------------------------------------------------------------------------
(* form_handler.py: the mail composed for a submission                     *)

\* template % args: the literal pieces of a template with one argument
\* between each two of them
RECURSIVE Format(_, _)
Format(pieces, args) ==
    IF args = <<>> THEN Head(pieces)
    ELSE Head(pieces) \o Head(args) \o Format(Tail(pieces), Tail(args))

\* responses[alias]["form_submission_template"] of responses.json: the
\* subject "%s", and the body in the format extract_fields reads
form_submission_subject ==
    << <<>>,
       <<>> >>
form_submission_body ==
    << <<"<", "p", ">", "<", "b", ">", "N", "a", "m", "e", ":", "<", "/", "b", ">", " ">>,
       <<"<", "/", "p", ">", "<", "p", ">", "<", "b", ">", "E", "m", "a", "i", "l", ":", "<", "/",
         "b", ">", " ">>,
       <<"<", "/", "p", ">", "<", "p", ">", "<", "b", ">", "S", "u", "b", "j", "e", "c", "t", ":",
         "<", "/", "b", ">", " ">>,
       <<"<", "/", "p", ">", "<", "p", ">", "<", "b", ">", "M", "e", "s", "s", "a", "g", "e", ":",
         "<", "/", "b", ">", "<", "/", "p", ">", "<", "p", ">">>,
       <<"<", "/", "p", ">">> >>

\* the f-string of lines 755-770, cut at its four fields
postmark_body ==
    << <<"\n", " ", " ", " ", " ", " ", " ", " ", " ", "<", "h", "t", "m", "l", ">", "\n", " ",
         " ", " ", " ", " ", " ", " ", " ", "<", "b", "o", "d", "y", ">", "\n", " ", " ",
         " ", " ", " ", " ", " ", " ", " ", " ", " ", " ", "<", "h", "2", ">", "P", "o",
         "s", "t", "m", "a", "r", "k", " ", "I", "n", "q", "u", "i", "r", "y", " ", "R",
         "e", "c", "e", "i", "v", "e", "d", "<", "/", "h", "2", ">", "\n", " ", " ", " ",
         " ", " ", " ", " ", " ", " ", " ", " ", " ", "<", "p", ">", "<", "s", "t", "r",
         "o", "n", "g", ">", "C", "u", "s", "t", "o", "m", "e", "r", " ", "N", "a", "m",
         "e", ":", "<", "/", "s", "t", "r", "o", "n", "g", ">", " ">>,
       <<"<", "/", "p", ">", "\n", " ", " ", " ", " ", " ", " ", " ", " ", " ", " ", " ", " ",
         "<", "p", ">", "<", "s", "t", "r", "o", "n", "g", ">", "C", "u", "s", "t", "o",
         "m", "e", "r", " ", "E", "m", "a", "i", "l", ":", "<", "/", "s", "t", "r", "o",
         "n", "g", ">", " ">>,
       <<"<", "/", "p", ">", "\n", " ", " ", " ", " ", " ", " ", " ", " ", " ", " ", " ", " ",
         "<", "p", ">", "<", "s", "t", "r", "o", "n", "g", ">", "I", "n", "q", "u", "i",
         "r", "y", " ", "S", "u", "b", "j", "e", "c", "t", ":", "<", "/", "s", "t", "r",
         "o", "n", "g", ">", " ">>,
       <<"<", "/", "p", ">", "\n", " ", " ", " ", " ", " ", " ", " ", " ", " ", " ", " ", " ",
         "<", "p", ">", "<", "s", "t", "r", "o", "n", "g", ">", "M", "e", "s", "s", "a",
         "g", "e", ":", "<", "/", "s", "t", "r", "o", "n", "g", ">", "<", "/", "p", ">",
         "\n", " ", " ", " ", " ", " ", " ", " ", " ", " ", " ", " ", " ", "<", "d", "i",
         "v", " ", "s", "t", "y", "l", "e", "=", "\"", "b", "a", "c", "k", "g", "r", "o",
         "u", "n", "d", "-", "c", "o", "l", "o", "r", ":", " ", "#", "f", "5", "f", "5",
         "f", "5", ";", " ", "p", "a", "d", "d", "i", "n", "g", ":", " ", "1", "5", "p",
         "x", ";", " ", "b", "o", "r", "d", "e", "r", "-", "l", "e", "f", "t", ":", " ",
         "4", "p", "x", " ", "s", "o", "l", "i", "d", " ", "#", "f", "f", "6", "b", "6",
         "b", ";", " ", "m", "a", "r", "g", "i", "n", ":", " ", "1", "0", "p", "x", " ",
         "0", ";", "\"", ">", "\n", " ", " ", " ", " ", " ", " ", " ", " ", " ", " ", " ",
         " ", " ", " ", " ", " ">>,
       <<"\n", " ", " ", " ", " ", " ", " ", " ", " ", " ", " ", " ", " ", "<", "/", "d", "i",
         "v", ">", "\n", " ", " ", " ", " ", " ", " ", " ", " ", " ", " ", " ", " ", "<",
         "h", "r", ">", "\n", " ", " ", " ", " ", " ", " ", " ", " ", " ", " ", " ", " ",
         "<", "p", ">", "<", "e", "m", ">", "T", "h", "i", "s", " ", "i", "n", "q", "u",
         "i", "r", "y", " ", "w", "a", "s", " ", "r", "e", "c", "e", "i", "v", "e", "d",
         " ", "t", "h", "r", "o", "u", "g", "h", " ", "y", "o", "u", "r", " ", "P", "o",
         "s", "t", "m", "a", "r", "k", " ", "i", "n", "t", "e", "g", "r", "a", "t", "i",
         "o", "n", ".", "<", "/", "e", "m", ">", "<", "/", "p", ">", "\n", " ", " ", " ",
         " ", " ", " ", " ", " ", "<", "/", "b", "o", "d", "y", ">", "\n", " ", " ", " ",
         " ", " ", " ", " ", " ", "<", "/", "h", "t", "m", "l", ">", "\n", " ", " ", " ",
         " ", " ", " ", " ", " ">> >>

\* lines 680-701: the message send_form_submission_email hands to SMTP
send_form_submission_email(form_config, submission) ==
    [ to |-> form_config.to_email[1],
      subject |-> Format(form_submission_subject, <<submission.subject>>),
      body |-> Format(form_submission_body,
                      <<submission.name, submission.email, submission.subject,
                        submission.content>>) ]

\* lines 746-771 and 781-786: the message send_postmark_form_submission_email
\* hands to the provider
send_postmark_form_submission_email(form_config, submission) ==
    [ to |-> form_config.to_email[1],
      subject |-> Format(form_submission_subject, <<submission.subject>>),
      body |-> Format(postmark_body,
                      <<submission.name, submission.email, submission.subject,
                        submission.content>>) ]

\* lines 631-638: the mail of an accepted submission in either mode
form_mail(mode, form_config, submission) ==
    IF mode = "postmark"
    THEN send_postmark_form_submission_email(form_config, submission)
    ELSE send_form_submission_email(form_config, submission)

---------------------------------------------------------------------------
(* icloud_mail_daemon.py: configuration, messages, one loop iteration      *)

\* the literals of lines 321 and 319
PostmarkInquiry == <<"P", "o", "s", "t", "m", "a", "r", "k", " ", "I", "n", "q", "u", "i",
    "r", "y", ":">>
PostmarkInquiryLower == <<"p", "o", "s", "t", "m", "a", "r", "k", " ", "i", "n", "q", "u",
    "i", "r", "y", ":">>

\* subjects that have a reply template, and headers of messages
SubjectPostmarkPricing == <<"P", "o", "s", "t", "m", "a", "r", "k", " ", "I", "n", "q",
    "u", "i", "r", "y", ":", " ", "P", "r", "i", "c", "i", "n", "g", " ", "q", "u", "e",
    "s", "t", "i", "o", "n">>
SubjectPricing == <<"P", "r", "i", "c", "i", "n", "g", " ", "q", "u", "e", "s", "t", "i",
    "o", "n">>
TemplatePricing == <<"P", "r", "i", "c", "i", "n", "g">>
TemplateSupport == <<"S", "u", "p", "p", "o", "r", "t">>
ToHelloMixed == <<"H", "e", "l", "l", "o", "@", "E", "x", "a", "m", "p", "l", "e", ".",
    "c", "o", "m">>

\* INSTANCE_EMAILS.split(",")
instance_emails == <<MailHello, MailSupport>>

\* RESPONSE_CONFIG, aliases and subjects in the order of responses.json
MailSales == <<"s", "a", "l", "e", "s", "@", "e", "x", "a", "m", "p", "l", "e", ".", "c",
    "o", "m">>
RESPONSE_CONFIG ==
    << [alias |-> MailHello,
        subjects |-> <<TemplatePricing, SubjectPricing, TemplateSupport>>],
       [alias |-> MailSales,
        subjects |-> <<TemplateSupport, TemplatePricing>>] >>

\* the messages that can be in the inbox, by sequence number: the To and
\* Subject headers and the HTML payload
\*   1  matches in iCloud mode              2  matches in postmark mode
\*   3  has no To header                    4  matches, body without fields
\*   5  is for an instance email that has no alias in RESPONSE_CONFIG
BodyOf(name, email, subject) ==
    Format(form_submission_body, <<name, email, subject, ContentCall>>)

Mails ==
    << [to |-> MailHello,
        subject |-> SubjectPricing,
        body |-> BodyOf(NameAlice, EmailAlice, SubjectHello)],
       [to |-> ToHelloMixed,
        subject |-> SubjectPostmarkPricing,
        body |-> BodyOf(NameBob, EmailBob, SubjectHello)],
       [to |-> None,
        subject |-> SubjectPricing,
        body |-> BodyOf(NameAlice, EmailAlice, SubjectHello)],
       [to |-> MailHello,
        subject |-> SubjectPricing,
        body |-> ContentCall],
       [to |-> MailSupport,
        subject |-> SubjectPricing,
        body |-> BodyOf(NameAlice, EmailAlice, SubjectHello)] >>

MailIds == 1..Len(Mails)

NoMatch == <<"<no match>">>

\* an alias loop without the break of line 307: the last alias found wins
RECURSIVE AliasLoopLast(_, _, _)
AliasLoopLast(i, header_to, found) ==
    IF i > Len(RESPONSE_CONFIG) THEN found
    ELSE IF Contains(Lower(RESPONSE_CONFIG[i].alias), Lower(header_to))
    THEN AliasLoopLast(i + 1, header_to, i)
    ELSE AliasLoopLast(i + 1, header_to, found)

matching_alias_last(header_to) == AliasLoopLast(1, header_to, 0)

\* lines 304-307: the loop over the aliases of RESPONSE_CONFIG from the i-th
\* on, which stops at the first one found in the To header, both in lower
\* case; 0 stands for matching_alias = None
RECURSIVE AliasLoop(_, _)
AliasLoop(i, header_to) ==
    IF i > Len(RESPONSE_CONFIG) THEN 0
    ELSE IF Contains(Lower(RESPONSE_CONFIG[i].alias), Lower(header_to)) THEN i
    ELSE AliasLoop(i + 1, header_to)

\* lines 303-307
matching_alias(header_to) == AliasLoop(1, header_to)

\* str.strip() on both ends
RECURSIVE Strip(_)
Strip(text) ==
    IF text = <<>> THEN text
    ELSE IF Head(text) \in Whitespace THEN Strip(Tail(text))
    ELSE IF text[Len(text)] \in Whitespace THEN Strip(SubSeq(text, 1, Len(text) - 1))
    ELSE text

\* lines 323-326 and 329-332: the loop over the subjects of an alias from
\* the i-th on, which stops at the first one the text starts with
RECURSIVE SubjectLoop(_, _, _)
SubjectLoop(i, subjects, text) ==
    IF i > Len(subjects) THEN NoMatch
    ELSE IF StartsWith(text, subjects[i]) THEN subjects[i]
    ELSE SubjectLoop(i + 1, subjects, text)

\* lines 316-332: in postmark mode only a subject that carries "postmark
\* inquiry:" is looked up, after "Postmark Inquiry:" was removed from it and
\* the rest stripped; otherwise the subject as it is
matching_subject(mode, alias, header_subject) ==
    LET subjects == RESPONSE_CONFIG[alias].subjects
        actual_subject == Strip(Remove(header_subject, PostmarkInquiry))
    IN  IF mode = "postmark"
        THEN IF Contains(PostmarkInquiryLower, Lower(header_subject))
             THEN SubjectLoop(1, subjects, actual_subject)
             ELSE NoMatch
        ELSE SubjectLoop(1, subjects, header_subject)

\* re.sub(r'<[^>]+>', '', body): every "<" with at least one character up
\* to the next ">" goes, with all that lies between them
FirstAt(text, from, c) ==
    LET at == {i \in from..Len(text) : text[i] = c}
    IN  IF at = {} THEN 0 ELSE CHOOSE i \in at : \A j \in at : i <= j

\* the least number of a set
Least(S) == CHOOSE i \in S : \A j \in S : i <= j

RECURSIVE StripTags(_)
StripTags(body) ==
    LET opens == {p \in 1..(Len(body) - 2) :
                    body[p] = "<" /\ body[p + 1] # ">" /\ FirstAt(body, p + 2, ">") > 0}
        open == Least(opens)
    IN  IF opens = {} THEN body
        ELSE SubSeq(body, 1, open - 1)
                \o StripTags(SubSeq(body, FirstAt(body, open + 2, ">") + 1, Len(body)))

\* the whitespace that follows position at
RECURSIVE SpaceRun(_, _)
SpaceRun(text, at) ==
    IF at < Len(text) /\ text[at + 1] \in Whitespace THEN 1 + SpaceRun(text, at + 1) ELSE 0

\* re.sub(r'\n\s*\n', '\n\n', body): a newline, the longest whitespace after
\* it that ends in a newline
NewlineAfter(body, p) ==
    LET ends == {i \in (p + 1)..(p + SpaceRun(body, p)) : body[i] = "\n"}
    IN  IF ends = {} THEN 0 ELSE CHOOSE i \in ends : \A j \in ends : j <= i

RECURSIVE NormalizeNewlines(_)
NormalizeNewlines(body) ==
    LET starts == {p \in 1..Len(body) : body[p] = "\n" /\ NewlineAfter(body, p) > 0}
        start == Least(starts)
    IN  IF starts = {} THEN body
        ELSE SubSeq(body, 1, start - 1) \o <<"\n", "\n">>
                \o NormalizeNewlines(SubSeq(body, NewlineAfter(body, start) + 1, Len(body)))

\* lines 339-356: the body of a message whose one text part is HTML, as the
\* form mails are: its payload, and with "<html" in it the payload without
\* its tags
HtmlOpen == <<"<", "h", "t", "m", "l">>

message_body(payload) ==
    IF Contains(HtmlOpen, Lower(payload))
    THEN NormalizeNewlines(StripTags(payload))
    ELSE payload

\* re.search(label + r"\s*(.+?)</p>", body).group(1), or None: at the first
\* place where it can be done, the label, the most whitespace, and the
\* fewest characters, one at least and no newline, that "</p>" follows
CloseP == <<"<", "/", "p", ">">>

Group(body, start) ==
    LET newline == FirstAt(body, start, "\n")
        stop == IF newline = 0 THEN Len(body) ELSE newline - 1
        lens == {g \in 1..(stop - start + 1) :
                    StartsWith(SubSeq(body, start + g, Len(body)), CloseP)}
    IN  IF lens = {} THEN None
        ELSE SubSeq(body, start, start + Least(lens) - 1)

\* of the groups found at several places, the one at the first or at the
\* last place that has one
GroupAtFirst(groups) ==
    LET at == {p \in DOMAIN groups : groups[p] # None}
    IN  IF at = {} THEN None ELSE groups[Least(at)]

GroupAtLast(groups) ==
    LET at == {p \in DOMAIN groups : groups[p] # None}
    IN  IF at = {} THEN None ELSE groups[CHOOSE p \in at : \A r \in at : r <= p]

GroupAfter(body, after) ==
    GroupAtLast([k \in 0..SpaceRun(body, after - 1) |-> Group(body, after + k)])

Search(label, body) ==
    GroupAtFirst([p \in {r \in 1..(Len(body) - Len(label) + 1) :
                            StartsWith(SubSeq(body, r, Len(body)), label)}
                    |-> GroupAfter(body, p + Len(label))])

LabelName == <<"<", "b", ">", "N", "a", "m", "e", ":", "<", "/", "b", ">">>
LabelEmail == <<"<", "b", ">", "E", "m", "a", "i", "l", ":", "<", "/", "b", ">">>
LabelSubject == <<"<", "b", ">", "S", "u", "b", "j", "e", "c", "t", ":", "<", "/", "b",
    ">">>

\* lines 73-90: the three fields, stripped, or none of them when one of the
\* three searches found nothing
Fields(name_match, email_match, subject_match) ==
    IF name_match = None \/ email_match = None \/ subject_match = None
    THEN [name |-> None, email |-> None, subject |-> None]
    ELSE [name |-> Strip(name_match), email |-> Strip(email_match),
          subject |-> Strip(subject_match)]

\* lines 66-90
extract_fields(body) ==
    Fields(Search(LabelName, body), Search(LabelEmail, body), Search(LabelSubject, body))

\* what one turn of the loop of lines 283-395 does
Done(note, attempted, sent, marked, raised) ==
    [note |-> note, attempted |-> attempted, sent |-> sent, marked |-> marked,
     raised |-> raised, mirror |-> "none"]

\* lines 110-111 and 175-176: name.split()[0], or None where it raises
\* IndexError
first_name(name) ==
    LET text == Strip(name)
        spaces == {i \in 1..Len(text) : text[i] \in Whitespace}
    IN  IF text = <<>> THEN None
        ELSE IF spaces = {} THEN text
        ELSE SubSeq(text, 1, Least(spaces) - 1)

\* a send_reply that gives up the reply when the copy cannot be saved
send_reply_saved(send, mirror) ==
    [success |-> send /\ mirror,
     mirror |-> IF ~send THEN "none" ELSE IF mirror THEN "saved" ELSE "failed"]

\* lines 113-142: send_reply once the message is built.  send is whether
\* SMTP takes the message, mirror whether the append to "Sent Messages"
\* works; save_to_sent_folder is called after send_message only, and logs
\* its own failure (lines 92-108, 126-129)
send_reply(send, mirror) ==
    [success |-> send,
     mirror |-> IF ~send THEN "none" ELSE IF mirror THEN "saved" ELSE "failed"]

\* lines 203-228: send_postmark_reply once the message is built; send is
\* whether the provider takes it
send_postmark_reply(send) == [success |-> send, mirror |-> "none"]


\* lines 358 and 110-111: what becomes of a message that has a reply
\* template, by the fields of its body
Replying(fields) ==
    IF fields.email \in {None, Empty} \/ fields.subject \in {None, Empty}
    THEN "missing fields"
    ELSE IF first_name(fields.name) = None THEN "name raised"
    ELSE "reply"

\* lines 290-336 and 358 for message num: where the turn ends when nothing
\* is sent ("name raised": inside send_reply, before anything is sent), or
\* "reply" when the message resolves to a reply.  The value
\* depends on the message and on the mode only; Resolved keeps it for each.
Resolve(mode, num) ==
    LET msg == Mails[num]
        alias == matching_alias(msg.to)
    IN  IF msg.to = None THEN "header raised"
        ELSE IF ~\E i \in 1..Len(instance_emails) :
                    Contains(Lower(instance_emails[i]), Lower(msg.to))
        THEN "not for any instance"
        ELSE IF alias = 0 THEN "no matching alias"
        ELSE IF matching_subject(mode, alias, msg.subject) = NoMatch
        THEN "no matching response"
        ELSE Replying(extract_fields(message_body(msg.body)))

Resolved == [mode \in Modes |-> [num \in MailIds |-> Resolve(mode, num)]]

\* a loop turn that marks the message read when no fields could be extracted
IterationMarksUnanswered(mode, num, fetch, send, mirror, store) ==
    LET resolved == Resolved[mode][num]
    IN  IF fetch = "error" THEN Done("fetch raised", FALSE, FALSE, FALSE, TRUE)
        ELSE IF fetch # "OK" THEN Done("fetch failed", FALSE, FALSE, FALSE, FALSE)
        ELSE IF resolved = "header raised" THEN Done(resolved, FALSE, FALSE, FALSE, TRUE)
        ELSE IF resolved = "missing fields" THEN Done(resolved, TRUE, FALSE, TRUE, FALSE)
        ELSE IF resolved \notin {"reply", "name raised"}
        THEN Done(resolved, FALSE, FALSE, FALSE, FALSE)
        ELSE IF resolved = "name raised" THEN Done(resolved, TRUE, FALSE, FALSE, TRUE)
        ELSE LET reply == IF mode = "postmark" THEN send_postmark_reply(send)
                          ELSE send_reply(send, mirror)
                 done == IF ~reply.success THEN Done("send failed", TRUE, FALSE, FALSE, FALSE)
                         ELSE IF store = "error"
                         THEN Done("store raised", TRUE, TRUE, FALSE, TRUE)
                         ELSE Done("replied", TRUE, TRUE, TRUE, FALSE)
             IN  [done EXCEPT !.mirror = reply.mirror]

\* One turn of the loop for message num; fetch is what mail.fetch does ("OK",
\* "NO", or "error" when it raises), send and mirror what the transport and
\* the Sent folder do, store what mail.store does; a call that is not
\* reached has no outcome to choose.
Iteration(mode, num, fetch, send, mirror, store) ==
    LET resolved == Resolved[mode][num]
    IN  IF fetch = "error" THEN Done("fetch raised", FALSE, FALSE, FALSE, TRUE)
        ELSE IF fetch # "OK" THEN Done("fetch failed", FALSE, FALSE, FALSE, FALSE)
        ELSE IF resolved = "header raised" THEN Done(resolved, FALSE, FALSE, FALSE, TRUE)
        ELSE IF resolved = "missing fields" THEN Done(resolved, TRUE, FALSE, FALSE, FALSE)
        ELSE IF resolved \notin {"reply", "name raised"}
        THEN Done(resolved, FALSE, FALSE, FALSE, FALSE)
        ELSE IF resolved = "name raised" THEN Done(resolved, TRUE, FALSE, FALSE, TRUE)
        ELSE LET reply == IF mode = "postmark" THEN send_postmark_reply(send)
                          ELSE send_reply(send, mirror)
                 done == IF ~reply.success THEN Done("send failed", TRUE, FALSE, FALSE, FALSE)
                         ELSE IF store = "error"
                         THEN Done("store raised", TRUE, TRUE, FALSE, TRUE)
                         ELSE Done("replied", TRUE, TRUE, TRUE, FALSE)
             IN  [done EXCEPT !.mirror = reply.mirror]

---------------------------------------------------------------------------
(* Specification Spec: requests served one after the other within one     *)
(* limiter window, and the detached dispatch tasks                         *)

\* the daemon at its start: an empty inbox, the loop before its first pass
NoMail == [num |-> 0, note |-> ""]

InitDaemon ==
    /\ mailbox = [num \in MailIds |-> "absent"]
    /\ poll = [pc |-> "sleep", queue |-> <<>>]
    /\ replies = [num \in MailIds |-> 0]
    /\ attempts = [num \in MailIds |-> 0]
    /\ handled = NoMail

MaxTasks == 2

NoRequest == [status |-> 0, trace |-> <<>>, task |-> 0]

\* where a request being served can wait: the awaited store calls of
\* _is_suspicious_behavior and of the rate limit
Pcs == {"behavior.get", "behavior.setex", "rate.get", "rate.incr", "rate.expire"}

Init ==
    /\ global_mode \in Modes
    /\ redis = [k \in Keys |-> NoKey]
    /\ limiter = [w \in Workers |-> [h \in Hosts |-> NoKey]]
    /\ tasks = <<>>
    /\ last = NoRequest
    /\ ticks = 0
    /\ seen = {}
    /\ inflight = [pc \in Pcs |-> 0]
    /\ vsub = NoRequest
    /\ vres = ""
    /\ InitDaemon

\* one request, from the limiter to the response; `last` keeps what the
\* client and the log saw of it
Serve(request, verify) ==
    \E r \in {submit_form(request, global_mode, verify, redis, limiter)} :
        /\ r.task # NoTask => Len(tasks) < MaxTasks
        /\ redis' = r.redis
        /\ limiter' = r.limiter
        /\ tasks' = IF r.task = NoTask THEN tasks
                    ELSE Append(tasks, [backend |-> r.task.backend, state |-> "pending"])
        /\ last' = [request |-> request, status |-> r.status, detail |-> r.detail,
                    trace |-> r.trace,
                    task |-> IF r.task = NoTask THEN 0 ELSE Len(tasks) + 1]

SubmitForm(request, verify) ==
    /\ Serve(request, verify)
    /\ UNCHANGED <<daemon, global_mode, ticks, seen, inflight, vsub, vres>>

\* a send that is tried again after it failed
SendRetried(t, ok) ==
    /\ t \in 1..Len(tasks)
    /\ tasks[t].state # "sent"
    /\ tasks' = [tasks EXCEPT ![t].state = IF ok THEN "sent" ELSE "failed"]
    /\ UNCHANGED <<daemon, global_mode, redis, limiter, last, ticks, seen, inflight, vsub, vres>>

\* the detached send of task t ends: delivered, or an exception that is
\* logged and raised inside the task, which nobody awaits
SendDone(t, ok) ==
    /\ t \in 1..Len(tasks)
    /\ tasks[t].state = "pending"
    /\ tasks' = [tasks EXCEPT ![t].state = IF ok THEN "sent" ELSE "failed"]
    /\ UNCHANGED <<daemon, global_mode, redis, limiter, last, ticks, seen, inflight, vsub, vres>>

Next ==
    \/ \E request \in Requests : \E verify \in ProviderAnswers(request) :
          SubmitForm(request, verify)
    \/ \E t \in 1..MaxTasks, ok \in BOOLEAN : SendDone(t, ok)

Spec == Init /\ [][Next]_vars

---------------------------------------------------------------------------
(* Specification SpecWindow: acceptable submissions of two origins to two  *)
(* channels, with time passing; the dispatch tasks stay as they were       *)
(* started                                                                 *)

MaxTicks == 2
TickSeconds == 60 \div 2

ViaProxy == CHOOSE c \in Clients : c.x_forwarded_for # <<>>

\* per origin and channel, one submission that every stage accepts when the
\* provider verifies its token
WindowRequests ==
    { Request(1, c, "contact-key", OriginExample, "good") : c \in {Direct, ViaProxy} }
    \cup { Request(1, Direct, "support-key", OriginExample, "token") }

Pair(request) == <<get_real_ip(request), request.form_key>>

SubmitTracked(request, verify) ==
    /\ Serve(request, verify)
    /\ seen' = seen \cup {Pair(request)}
    /\ UNCHANGED <<daemon, global_mode, ticks, inflight, vsub, vres>>

\* TickSeconds pass
Tick ==
    /\ ticks < MaxTicks
    /\ ticks' = ticks + 1
    /\ redis' = Elapse(redis, TickSeconds)
    /\ limiter' = [w \in Workers |-> Elapse(limiter[w], TickSeconds)]
    /\ UNCHANGED <<daemon, global_mode, tasks, last, seen, inflight, vsub, vres>>

\* a day passes: every expiring key is gone
DayPasses ==
    /\ ticks' = 0
    /\ redis' = Elapse(redis, 86400)
    /\ limiter' = [w \in Workers |-> Elapse(limiter[w], 86400)]
    /\ UNCHANGED <<daemon, global_mode, tasks, last, seen, inflight, vsub, vres>>

NextWindow ==
    \/ \E request \in WindowRequests : \E verify \in ProviderAnswers(request) :
          SubmitTracked(request, verify)
    \/ Tick
    \/ DayPasses

SpecWindow == Init /\ [][NextWindow]_vars

---------------------------------------------------------------------------
(* Specification SpecConc: the same acceptable submission sent several     *)
(* times at once, to two worker processes; each awaited store call is a    *)
(* step, and the calls of different requests interleave                    *)

MaxInflight == 6

ConcRequest(worker) == Request(worker, Direct, "contact-key", OriginExample, "good")

ConcIp == get_real_ip(ConcRequest(1))

\* the requests the limiters have let in
Arrived ==
    LET n(w) == IF limiter[w][Direct.client_host].found
                THEN limiter[w][Direct.client_host].val ELSE 0
    IN  n(1) + n(2)

Move(from, to) == [inflight EXCEPT ![from] = @ - 1, ![to] = @ + 1]

\* a request reaches a worker: slowapi's limit, then lines 542-602, which
\* await nothing that is shared, up to the first call of the store
Arrive(worker) ==
    /\ Arrived < MaxInflight
    /\ \E hit \in {limiter_hit(limiter[worker], Direct.client_host)} :
          /\ limiter' = [limiter EXCEPT ![worker] = hit.table]
          /\ inflight' = IF hit.ok /\ Validations[ConcRequest(worker).form] = "ok"
                         THEN [inflight EXCEPT !["behavior.get"] = @ + 1]
                         ELSE inflight
    /\ UNCHANGED <<daemon, global_mode, redis, tasks, last, ticks, seen, vsub, vres>>

\* line 394 answers; lines 395-418 follow without another await: a request
\* that read a stored profile ends there with the AttributeError
BehaviorGet ==
    /\ inflight["behavior.get"] > 0
    /\ \E updated \in {UpdatePatternData(
                          LoadPatternData(redis_get(redis, BehaviorKey(ConcIp))),
                          Submissions["good"])} :
          inflight' = IF updated.exc # ""
                      THEN [inflight EXCEPT !["behavior.get"] = @ - 1]
                      ELSE Move("behavior.get", "behavior.setex")
    /\ UNCHANGED <<daemon, global_mode, redis, limiter, tasks, last, ticks, seen, vsub, vres>>

\* line 437 writes the profile the request built from what it had read,
\* which was no profile; lines 440-462 then find nothing suspicious in one entry
BehaviorSetex ==
    /\ inflight["behavior.setex"] > 0
    /\ \E updated \in {UpdatePatternData(NewPatternData, Submissions["good"])} :
          /\ redis' = redis_setex(redis, BehaviorKey(ConcIp), 86400, updated.pattern_data)
          /\ inflight' = IF SuspiciousPattern(updated.pattern_data)
                         THEN [inflight EXCEPT !["behavior.setex"] = @ - 1]
                         ELSE Move("behavior.setex", "rate.get")
    /\ UNCHANGED <<daemon, global_mode, limiter, tasks, last, ticks, seen, vsub, vres>>

\* lines 611-613: the read and the comparison
RateGet ==
    /\ inflight["rate.get"] > 0
    /\ \E current \in {redis_get(redis, RateKey(ConcIp, "contact-key"))} :
          inflight' = IF current.found /\ current.val >= 5
                      THEN [inflight EXCEPT !["rate.get"] = @ - 1]
                      ELSE Move("rate.get", "rate.incr")
    /\ UNCHANGED <<daemon, global_mode, redis, limiter, tasks, last, ticks, seen, vsub, vres>>

\* line 614
RateIncr ==
    /\ inflight["rate.incr"] > 0
    /\ redis' = redis_incr(redis, RateKey(ConcIp, "contact-key"))
    /\ inflight' = Move("rate.incr", "rate.expire")
    /\ UNCHANGED <<daemon, global_mode, limiter, tasks, last, ticks, seen, vsub, vres>>

\* line 615, then lines 617-640 without another await: the channel has no
\* captcha policy, the task is started and the request is answered
RateExpire ==
    /\ inflight["rate.expire"] > 0
    /\ redis' = redis_expire(redis, RateKey(ConcIp, "contact-key"), 60)
    /\ inflight' = [inflight EXCEPT !["rate.expire"] = @ - 1]
    /\ \E r \in {Dispatch(global_mode, redis', limiter, <<>>)} :
          tasks' = Append(tasks, [backend |-> r.task.backend, state |-> "pending"])
    /\ UNCHANGED <<daemon, global_mode, limiter, last, ticks, seen, vsub, vres>>

NextConc ==
    \/ \E worker \in Workers : Arrive(worker)
    \/ BehaviorGet
    \/ BehaviorSetex
    \/ RateGet
    \/ RateIncr
    \/ RateExpire

SpecConc == Init /\ [][NextConc]_vars

---------------------------------------------------------------------------
(* Specification SpecValidate: FormSubmission.validate() as a function of  *)
(* the fields, on values at, within and beyond every bound                 *)

\* text repeated up to n characters
Cycle(text, n) == [i \in 1..n |-> text[((i - 1) % Len(text)) + 1]]

Blank == <<" ", " ">>
NameUnit == <<"a", "n", "n", "a", " ", "b", "a", "n", "a", "n", "a", " ">>
SubjectUnit == <<"H", "e", "l", "l", "o", " ">>
ContentUnit ==
    <<"p", "l", "e", "a", "s", "e", " ", "c", "a", "l", "l", " ", "m", "e", " ",
      "b", "a", "c", "k", " ">>
EmailTail == <<"@", "e", "x", "a", "m", "p", "l", "e", ".", "c", "o", "m">>

\* the values each field is drawn from, by name
VNames ==
    [ alice |-> NameAlice, empty |-> Empty, blank |-> Blank, smash |-> NameSmash,
      n100 |-> Cycle(NameUnit, 100), n101 |-> Cycle(NameUnit, 101) ]
VEmails ==
    [ alice |-> EmailAlice, empty |-> Empty, noat |-> EmailNoAt,
      e254 |-> Cycle(<<"a">>, 254 - Len(EmailTail)) \o EmailTail,
      e255 |-> Cycle(<<"a">>, 255 - Len(EmailTail)) \o EmailTail ]
VSubjects ==
    [ hello |-> SubjectHello, empty |-> Empty, blank |-> Blank,
      s200 |-> Cycle(SubjectUnit, 200), s201 |-> Cycle(SubjectUnit, 201) ]
VContents ==
    [ call |-> ContentCall, empty |-> Empty, blank |-> Blank, smash |-> NameSmash,
      c10000 |-> Cycle(ContentUnit, 10000), c10001 |-> Cycle(ContentUnit, 10001) ]
VWebsites ==
    [ none |-> None, empty |-> Empty, blank |-> Blank, filled |-> WebsiteSpam ]

\* the submissions drawn, by the names of their field values: every
\* combination of the short values, and the body of 10000 and of 10001
\* characters with every other field ordinary and with every other field at
\* its bound
VInputs ==
    [ name : DOMAIN VNames, email : DOMAIN VEmails, subject : DOMAIN VSubjects,
      content : DOMAIN VContents \ {"c10000", "c10001"}, website : DOMAIN VWebsites ]
    \cup { [name |-> x[1], email |-> x[2], subject |-> x[3], content |-> c,
            website |-> "none"] :
             x \in {<<"alice", "alice", "hello">>, <<"n100", "e254", "s200">>},
             c \in {"c10000", "c10001"} }

VSubmission(v) ==
    [ exc |-> "", name |-> VNames[v.name], email |-> VEmails[v.email],
      subject |-> VSubjects[v.subject], content |-> VContents[v.content],
      captcha_token |-> None, website |-> VWebsites[v.website] ]

InitValidate ==
    /\ global_mode = "iCloud"
    /\ redis = [k \in Keys |-> NoKey]
    /\ limiter = [w \in Workers |-> [h \in Hosts |-> NoKey]]
    /\ tasks = <<>>
    /\ last = NoRequest
    /\ ticks = 0
    /\ seen = {}
    /\ inflight = [pc \in Pcs |-> 0]
    /\ vsub \in VInputs
    /\ vres = ""
    /\ InitDaemon

\* submission.validate() on the submission drawn
Validate ==
    /\ vres = ""
    /\ vres' = validate(VSubmission(vsub))
    /\ UNCHANGED <<daemon, global_mode, redis, limiter, tasks, last, ticks, seen, inflight, vsub>>

NextValidate == Validate

SpecValidate == InitValidate /\ [][NextValidate]_vars


---------------------------------------------------------------------------
(* Specification SpecProfile: the submissions of each origin, one after    *)
(* the other, with the history of what each origin sent                    *)

MaxHistory == 3

\* submissions that pass Layer A: an ordinary one, and two with a
\* random-looking name and body and different email domains
ProfileRequests ==
    { Request(1, c, "contact-key", OriginExample, p) :
        c \in {Direct, ViaProxy}, p \in {"good", "rnd1", "rnd2"} }

\* what an origin sent so far, as entries <<origin, position, payload>>
Sent(history, ip) == {e \in history : e[1] = ip}

SubmitRecorded(request) ==
    /\ Cardinality(Sent(seen, get_real_ip(request))) < MaxHistory
    /\ Serve(request, "success")
    /\ seen' = seen \cup {<<get_real_ip(request),
                            Cardinality(Sent(seen, get_real_ip(request))) + 1,
                            request.form>>}
    /\ UNCHANGED <<daemon, global_mode, ticks, inflight, vsub, vres>>

NextProfile ==
    \/ \E request \in ProfileRequests : SubmitRecorded(request)
    \/ Tick

SpecProfile == Init /\ [][NextProfile]_vars



---------------------------------------------------------------------------
(* Specification SpecExpiry: the submissions of one origin with time       *)
(* passing, in steps of TickSeconds and in days, so that its profile       *)
(* expires between two of them                                             *)

ExpiryRequests ==
    { Request(1, Direct, "contact-key", OriginExample, p) : p \in {"good", "rnd1", "rnd2"} }

NextExpiry ==
    \/ \E request \in ExpiryRequests : SubmitRecorded(request)
    \/ Tick
    \/ DayPasses

SpecExpiry == Init /\ [][NextExpiry]_vars


---------------------------------------------------------------------------
(* Specification SpecThrottle: acceptable submissions of two origins to    *)
(* one channel with time passing, with the answers each origin got so far  *)

ThrottleRequests ==
    { Request(1, c, "contact-key", OriginExample, "good") : c \in {Direct, ViaProxy} }

\* the answers an origin got on a channel are kept as <<origin, channel>>
\* with the status
SubmitNoted(request) ==
    /\ Serve(request, "success")
    /\ seen' = seen \cup {<<Pair(request), last'.status>>}
    /\ UNCHANGED <<daemon, global_mode, ticks, inflight, vsub, vres>>

NextThrottle ==
    \/ \E request \in ThrottleRequests : SubmitNoted(request)
    \/ Tick
    \/ DayPasses

SpecThrottle == Init /\ [][NextThrottle]_vars

---------------------------------------------------------------------------
(* Specification SpecOrigin: the first request of a client, with Origin    *)
(* headers around the allowed domain                                       *)


\* the host parts and the schemes Origin headers are built from, by name
OriginHosts ==
    [ example |-> DomainExample,
      www |->
        <<"w", "w", "w", ".", "e", "x", "a", "m", "p", "l", "e", ".", "c", "o", "m">>,
      part |->
        <<"a", "m", "p", "l", "e", ".", "c", "o">>,
      suffixed |->
        <<"e", "x", "a", "m", "p", "l", "e", ".", "c", "o", "m", ".", "e", "v", "i", "l",
          ".", "n", "e", "t">>,
      evil |->
        <<"e", "v", "i", "l", ".", "n", "e", "t">>,
      upper |->
        <<"E", "X", "A", "M", "P", "L", "E", ".", "C", "O", "M">>,
      port |->
        <<"e", "x", "a", "m", "p", "l", "e", ".", "c", "o", "m", ":", "8", "4", "4", "3">>,
      inner |->
        <<"e", "x", "a", "h", "t", "t", "p", ":", "/", "/", "m", "p", "l", "e", ".", "c",
          "o", "m">>,
      none |-> Empty ]
OriginSchemes == [ https |-> SchemeHttps, http |-> SchemeHttp, none |-> Empty ]

OriginInputs ==
    [ form_key : FormKeys \cup {"no-such-key"}, scheme : DOMAIN OriginSchemes,
      host : DOMAIN OriginHosts ]

OriginOf(v) == OriginSchemes[v.scheme] \o OriginHosts[v.host]

InitOrigin ==
    /\ global_mode \in Modes
    /\ redis = [k \in Keys |-> NoKey]
    /\ limiter = [w \in Workers |-> [h \in Hosts |-> NoKey]]
    /\ tasks = <<>>
    /\ last = NoRequest
    /\ ticks = 0
    /\ seen = {}
    /\ inflight = [pc \in Pcs |-> 0]
    /\ vsub \in OriginInputs
    /\ vres = ""
    /\ InitDaemon

\* the request with the Origin header drawn, served with acceptable fields
SubmitOrigin ==
    /\ vres = ""
    /\ Serve(Request(1, Direct, vsub.form_key, OriginOf(vsub), "token"), "success")
    /\ vres' = "served"
    /\ UNCHANGED <<daemon, global_mode, ticks, seen, inflight, vsub>>

NextOrigin == SubmitOrigin

SpecOrigin == InitOrigin /\ [][NextOrigin]_vars


---------------------------------------------------------------------------
(* Specification SpecPoll: the poll loop of icloud_mail_daemon.py, one     *)
(* step per message of a pass, with mail arriving and being read by hand   *)

MaxReplies == 2
MaxAttempts == 2

\* the form handler is not part of this specification
Web == <<global_mode, redis, limiter, tasks, last, ticks, seen, inflight, vsub, vres>>

\* the sequence numbers of set S in ascending order
RECURSIVE Ascending(_)
Ascending(S) ==
    IF S = {} THEN <<>>
    ELSE LET least == CHOOSE num \in S : \A other \in S : num <= other
         IN  <<least>> \o Ascending(S \ {least})

\* a message arrives; sequence numbers are given in the order of arrival
Deliver(num) ==
    /\ mailbox[num] = "absent"
    /\ \A other \in MailIds : other < num => mailbox[other] # "absent"
    /\ mailbox' = [mailbox EXCEPT ![num] = "unseen"]
    /\ UNCHANGED <<Web, poll, replies, attempts, handled>>

\* the owner of the mailbox reads an unread message
Clear(num) ==
    /\ mailbox[num] = "unseen"
    /\ mailbox' = [mailbox EXCEPT ![num] = "seen"]
    /\ UNCHANGED <<Web, poll, replies, attempts, handled>>

\* a pass that ends the process when the connection or the login fails
StartPassFatal(login) ==
    /\ poll.pc = "sleep"
    /\ LET email_ids == Ascending({num \in MailIds : mailbox[num] = "unseen"})
       IN  IF ~login
           THEN /\ poll' = [pc |-> "dead", queue |-> <<>>]
                /\ handled' = [num |-> 0, note |-> "IMAP Error"]
           ELSE IF email_ids = <<>>
           THEN /\ poll' = poll
                /\ handled' = [num |-> 0, note |-> "No new matching messages."]
           ELSE /\ poll' = [pc |-> "loop", queue |-> email_ids]
                /\ handled' = handled
    /\ UNCHANGED <<Web, mailbox, replies, attempts>>

\* lines 252-281 and 404-411: after the sleep a pass connects, logs in and
\* searches UNSEEN; an exception (login is FALSE) is caught at line 396 and
\* the loop sleeps again
StartPass(login) ==
    /\ poll.pc = "sleep"
    /\ LET email_ids == Ascending({num \in MailIds : mailbox[num] = "unseen"})
       IN  IF ~login
           THEN /\ poll' = poll
                /\ handled' = [num |-> 0, note |-> "IMAP Error"]
           ELSE IF email_ids = <<>>
           THEN /\ poll' = poll
                /\ handled' = [num |-> 0, note |-> "No new matching messages."]
           ELSE /\ poll' = [pc |-> "loop", queue |-> email_ids]
                /\ handled' = handled
    /\ UNCHANGED <<Web, mailbox, replies, attempts>>

\* a loop that marks a message read once a reply was tried, sent or not
HandleMessageOnce(fetch, send, mirror, store) ==
    /\ poll.pc = "loop"
    /\ LET num == Head(poll.queue)
           done == Iteration(global_mode, num, fetch, send, mirror, store)
       IN  /\ done.sent => replies[num] < MaxReplies
           /\ replies' = [replies EXCEPT ![num] = IF done.sent THEN @ + 1 ELSE @]
           /\ attempts' = [attempts EXCEPT ![num] =
                            IF done.attempted /\ @ < MaxAttempts THEN @ + 1 ELSE @]
           /\ mailbox' = [mailbox EXCEPT ![num] = IF done.attempted THEN "seen" ELSE @]
           /\ handled' = [num |-> num, note |-> done.note, attempted |-> done.attempted,
                          sent |-> done.sent, marked |-> done.attempted,
                          raised |-> done.raised, mirror |-> done.mirror]
           /\ poll' = IF done.raised \/ Tail(poll.queue) = <<>>
                      THEN [pc |-> "sleep", queue |-> <<>>]
                      ELSE [pc |-> "loop", queue |-> Tail(poll.queue)]
    /\ UNCHANGED Web

\* lines 283-402: one turn of the loop for the next message of the pass.  An
\* exception ends the pass (line 396); so does the end of the list.
HandleMessage(fetch, send, mirror, store) ==
    /\ poll.pc = "loop"
    /\ LET num == Head(poll.queue)
           done == Iteration(global_mode, num, fetch, send, mirror, store)
       IN  /\ done.sent => replies[num] < MaxReplies
           /\ replies' = [replies EXCEPT ![num] = IF done.sent THEN @ + 1 ELSE @]
           /\ attempts' = [attempts EXCEPT ![num] =
                            IF done.attempted /\ @ < MaxAttempts THEN @ + 1 ELSE @]
           /\ mailbox' = [mailbox EXCEPT ![num] = IF done.marked THEN "seen" ELSE @]
           /\ handled' = [num |-> num, note |-> done.note, attempted |-> done.attempted,
                          sent |-> done.sent, marked |-> done.marked,
                          raised |-> done.raised, mirror |-> done.mirror]
           /\ poll' = IF done.raised \/ Tail(poll.queue) = <<>>
                      THEN [pc |-> "sleep", queue |-> <<>>]
                      ELSE [pc |-> "loop", queue |-> Tail(poll.queue)]
    /\ UNCHANGED Web

NextPoll ==
    \/ \E num \in MailIds : Deliver(num)
    \/ \E num \in MailIds : Clear(num)
    \/ \E login \in BOOLEAN : StartPass(login)
    \/ \E fetch \in {"OK", "NO", "error"} :
          \E send \in (IF fetch = "OK" THEN BOOLEAN ELSE {FALSE}) :
              \E mirror \in (IF send THEN BOOLEAN ELSE {FALSE}),
                 store \in (IF send THEN {"OK", "error"} ELSE {"OK"}) :
                  HandleMessage(fetch, send, mirror, store)

SpecPoll == Init /\ [][NextPoll]_vars


---------------------------------------------------------------------------
(* Specification SpecResolve: the alias and the subject found for the To   *)
(* and Subject headers of one message, in either mode                      *)

\* lines 303-336: the alias and the reply subject a message resolves to, or
\* NoRoute when the turn ends at line 311 or at line 336
NoRoute == [alias |-> 0, subject |-> NoMatch]

\* before the message was looked at
Unrouted == [alias |-> -1, subject |-> NoMatch]

Route(mode, header_to, header_subject) ==
    LET alias == matching_alias(header_to)
    IN  IF alias = 0 THEN NoRoute
        ELSE LET subject == matching_subject(mode, alias, header_subject)
             IN  IF subject = NoMatch THEN NoRoute
                 ELSE [alias |-> alias, subject |-> subject]

\* the To headers and the Subject headers drawn, by name
ResolveTos ==
    [ hello |->
        <<"h", "e", "l", "l", "o", "@", "e", "x", "a", "m", "p", "l", "e", ".", "c", "o", "m">>,
      mixed |->
        <<"A", "l", "i", "c", "e", " ", "<", "H", "e", "l", "l", "o", "@", "E", "x", "a", "m",
          "p", "l", "e", ".", "C", "O", "M", ">">>,
      both |->
        <<"h", "e", "l", "l", "o", "@", "e", "x", "a", "m", "p", "l", "e", ".", "c", "o", "m",
          ",", " ", "s", "a", "l", "e", "s", "@", "e", "x", "a", "m", "p", "l", "e", ".", "c",
          "o", "m">>,
      swapped |->
        <<"s", "a", "l", "e", "s", "@", "e", "x", "a", "m", "p", "l", "e", ".", "c", "o", "m",
          ",", " ", "h", "e", "l", "l", "o", "@", "e", "x", "a", "m", "p", "l", "e", ".", "c",
          "o", "m">>,
      sales |->
        <<"S", "a", "l", "e", "s", " ", "<", "s", "a", "l", "e", "s", "@", "e", "x", "a", "m",
          "p", "l", "e", ".", "c", "o", "m", ">">>,
      support |->
        <<"s", "u", "p", "p", "o", "r", "t", "@", "e", "x", "a", "m", "p", "l", "e", ".", "c",
          "o", "m">>,
      other |->
        <<"i", "n", "f", "o", "@", "e", "l", "s", "e", "w", "h", "e", "r", "e", ".", "n", "e",
          "t">> ]
ResolveSubjects ==
    [ pricing |->
        <<"P", "r", "i", "c", "i", "n", "g", " ", "q", "u", "e", "s", "t", "i", "o", "n">>,
      support |->
        <<"S", "u", "p", "p", "o", "r", "t", " ", "r", "e", "q", "u", "e", "s", "t">>,
      marked |->
        <<"P", "o", "s", "t", "m", "a", "r", "k", " ", "I", "n", "q", "u", "i", "r", "y", ":",
          " ", "P", "r", "i", "c", "i", "n", "g", " ", "q", "u", "e", "s", "t", "i", "o", "n">>,
      lowermark |->
        <<"p", "o", "s", "t", "m", "a", "r", "k", " ", "i", "n", "q", "u", "i", "r", "y", ":",
          " ", "P", "r", "i", "c", "i", "n", "g">>,
      inner |->
        <<"P", "r", "i", "c", "i", "n", "g", " ", "P", "o", "s", "t", "m", "a", "r", "k", " ",
          "I", "n", "q", "u", "i", "r", "y", ":", " ", "a", "g", "a", "i", "n">>,
      twice |->
        <<"P", "o", "s", "t", "m", "a", "r", "k", " ", "I", "n", "q", "u", "i", "r", "y", ":",
          "P", "o", "s", "t", "m", "a", "r", "k", " ", "I", "n", "q", "u", "i", "r", "y", ":",
          " ", "S", "u", "p", "p", "o", "r", "t">>,
      hello |->
        <<"H", "e", "l", "l", "o">>,
      lower |->
        <<"p", "r", "i", "c", "i", "n", "g", " ", "q", "u", "e", "s", "t", "i", "o", "n">>,
      re |->
        <<"R", "e", ":", " ", "P", "r", "i", "c", "i", "n", "g">> ]

ResolveInputs == [ mode : Modes, to : DOMAIN ResolveTos, subject : DOMAIN ResolveSubjects ]

InitResolve ==
    /\ global_mode = "iCloud"
    /\ redis = [k \in Keys |-> NoKey]
    /\ limiter = [w \in Workers |-> [h \in Hosts |-> NoKey]]
    /\ tasks = <<>>
    /\ last = NoRequest
    /\ ticks = 0
    /\ seen = {}
    /\ inflight = [pc \in Pcs |-> 0]
    /\ vsub \in ResolveInputs
    /\ vres = Unrouted
    /\ InitDaemon

\* the resolution of the message drawn
ResolveMessage ==
    /\ vres = Unrouted
    /\ vres' = Route(vsub.mode, ResolveTos[vsub.to], ResolveSubjects[vsub.subject])
    /\ UNCHANGED <<daemon, global_mode, redis, limiter, tasks, last, ticks, seen, inflight, vsub>>

NextResolve == ResolveMessage

SpecResolve == InitResolve /\ [][NextResolve]_vars



---------------------------------------------------------------------------
(* Specification SpecInstance: the start of the form handler and one turn  *)
(* of the poll loop as functions of the INSTANCE_EMAILS variable of the    *)
(* environment                                                             *)

\* text.split(","): the pieces between the commas, one piece for a text
\* without comma, the empty text included
RECURSIVE SplitComma(_)
SplitComma(text) ==
    LET commas == {i \in 1..Len(text) : text[i] = ","}
    IN  IF commas = {} THEN <<text>>
        ELSE <<SubSeq(text, 1, Least(commas) - 1)>>
                 \o SplitComma(SubSeq(text, Least(commas) + 1, Len(text)))

\* os.getenv("INSTANCE_EMAILS", "").split(","); None is the variable unset
getenv_instance_emails(value) == SplitComma(IF value = None THEN Empty ELSE value)

\* the values of the variable drawn, by name
InstanceEnvs ==
    [ unset |-> None,
      empty |-> Empty,
      hello |-> MailHello,
      two |-> MailHello \o <<",">> \o MailSupport ]

\* form_handler.py lines 103-123: the ValueError that ends the start of the
\* process, or "started"
StartUp(emails) ==
    IF emails = <<>> THEN "INSTANCE_EMAILS environment variable must be set"
    ELSE IF ~\E i \in 1..Len(forms), j \in 1..Len(emails) : forms[i].to_email[1] = emails[j]
    THEN "No configuration found for emails"
    ELSE IF \E i \in 1..Len(emails) :
               \A a \in 1..Len(RESPONSE_CONFIG) : RESPONSE_CONFIG[a].alias # emails[i]
    THEN "No response configuration found for email"
    ELSE "started"

\* icloud_mail_daemon.py line 298: the To header holds one of the instance
\* emails, both in lower case
ForInstance(emails, header_to) ==
    \E i \in 1..Len(emails) : Contains(Lower(emails[i]), Lower(header_to))

\* lines 257-261 and 297-336: what a pass does with a message it fetched
PassTurn(emails, mode, header_to, header_subject) ==
    IF emails = <<>> THEN [pass |-> "returned", route |-> NoRoute]
    ELSE IF ~ForInstance(emails, header_to) THEN [pass |-> "ran", route |-> NoRoute]
    ELSE [pass |-> "ran", route |-> Route(mode, header_to, header_subject)]

InstanceInputs ==
    [ env : DOMAIN InstanceEnvs, mode : Modes, to : DOMAIN ResolveTos,
      subject : DOMAIN ResolveSubjects ]

NotStarted == [start |-> "", pass |-> "", route |-> Unrouted]

InitInstance ==
    /\ global_mode = "iCloud"
    /\ redis = [k \in Keys |-> NoKey]
    /\ limiter = [w \in Workers |-> [h \in Hosts |-> NoKey]]
    /\ tasks = <<>>
    /\ last = NoRequest
    /\ ticks = 0
    /\ seen = {}
    /\ inflight = [pc \in Pcs |-> 0]
    /\ vsub \in InstanceInputs
    /\ vres = NotStarted
    /\ InitDaemon

\* both processes start with the variable drawn, and the poll loop looks at
\* the message drawn
StartInstance ==
    /\ vres = NotStarted
    /\ \E emails \in {getenv_instance_emails(InstanceEnvs[vsub.env])} :
          \E turn \in {PassTurn(emails, vsub.mode, ResolveTos[vsub.to],
                                ResolveSubjects[vsub.subject])} :
              vres' = [start |-> StartUp(emails), pass |-> turn.pass, route |-> turn.route]
    /\ UNCHANGED <<daemon, global_mode, redis, limiter, tasks, last, ticks, seen, inflight,
                   vsub>>

NextInstance == StartInstance

SpecInstance == InitInstance /\ [][NextInstance]_vars

---------------------------------------------------------------------------
(* Specification SpecRoundTrip: the mail composed for an accepted          *)
(* submission, read back by the poll loop in the same mode                 *)

\* the texts the fields of a submission are drawn from, by name
NamePadded == <<" ", "A", "l", "i", "c", "e", " ", "E", "x", "a", "m", "p", "l", "e", " ">>
NameTwoLines == <<"A", "l", "i", "c", "e", "\n", "E", "x", "a", "m", "p", "l", "e">>
NameClosing == <<"A", "l", "i", "c", "e", "<", "/", "p", ">", "E", "x", "a", "m", "p", "l",
    "e">>
SubjectPadded == <<" ", "H", "e", "l", "l", "o">>

RoundTripNames ==
    [ alice |-> NameAlice, bob |-> NameBob, padded |-> NamePadded,
      lines |-> NameTwoLines, closing |-> NameClosing ]
RoundTripEmails == [ alice |-> EmailAlice, bob |-> EmailBob ]
RoundTripSubjects ==
    [ hello |-> SubjectHello, padded |-> SubjectPadded, pricing |-> SubjectPricing ]
RoundTripContents == [ call |-> ContentCall, hello |-> ContentHello ]

RoundTripInputs ==
    [ mode : Modes, name : DOMAIN RoundTripNames, email : DOMAIN RoundTripEmails,
      subject : DOMAIN RoundTripSubjects, content : DOMAIN RoundTripContents ]

RoundTripSubmission(v) ==
    FormSubmission(FormData(RoundTripNames[v.name], RoundTripEmails[v.email],
                            RoundTripSubjects[v.subject], RoundTripContents[v.content],
                            None, None))

\* before the mail was read
Unread ==
    [ read |-> FALSE, to |-> None, subject |-> None,
      fields |-> [name |-> None, email |-> None, subject |-> None] ]

\* form_handler.py 631-638 and icloud_mail_daemon.py 290-358: the mail of a
\* submission as the poll loop reads it: its headers and the fields
\* extract_fields finds in its body
read_back(mode, form_config, submission) ==
    LET mail == form_mail(mode, form_config, submission)
    IN  [ read |-> TRUE, to |-> mail.to, subject |-> mail.subject,
          fields |-> extract_fields(message_body(mail.body)) ]

InitRoundTrip ==
    /\ global_mode = "iCloud"
    /\ redis = [k \in Keys |-> NoKey]
    /\ limiter = [w \in Workers |-> [h \in Hosts |-> NoKey]]
    /\ tasks = <<>>
    /\ last = NoRequest
    /\ ticks = 0
    /\ seen = {}
    /\ inflight = [pc \in Pcs |-> 0]
    /\ vsub \in RoundTripInputs
    /\ vres = Unread
    /\ InitDaemon

\* the submission drawn is accepted, its mail is sent and read back
RoundTrip ==
    /\ ~vres.read
    /\ RoundTripSubmission(vsub).exc = ""
    /\ validate(RoundTripSubmission(vsub)) = "ok"
    /\ vres' = read_back(vsub.mode, forms[1], RoundTripSubmission(vsub))
    /\ UNCHANGED <<daemon, global_mode, redis, limiter, tasks, last, ticks, seen, inflight, vsub>>

NextRoundTrip == RoundTrip

SpecRoundTrip == InitRoundTrip /\ [][NextRoundTrip]_vars


---------------------------------------------------------------------------
(* Python's float arithmetic, as _calculate_entropy uses it.  A float is   *)
(* an IEEE 754 binary64: m * 2^e with a mantissa m of Precision bits, or   *)
(* zero; only magnitudes occur (p * log2(p) is never positive, and is      *)
(* subtracted).  The mantissa is a natural number written as its digits in *)
(* base 2^15, lowest first, without leading zeros.  Division,              *)
(* multiplication and addition round to nearest, ties to even; log2 is     *)
(* computed to LogBits fraction bits by repeated squaring of a mantissa of *)
(* SquareBits bits and rounded the same way.                               *)

Base == 2^15
Precision == 53
DivBits == 60
SquareBits == 74
LogBits == 64

Zero == [m |-> <<>>, e |-> 0]

RECURSIVE Trim(_)
Trim(a) == IF a # <<>> /\ a[Len(a)] = 0 THEN Trim(SubSeq(a, 1, Len(a) - 1)) ELSE a

\* a machine integer below Base * Base
Small(n) == Trim(<<n % Base, n \div Base>>)

Bits(d) == CHOOSE b \in 0..15 : d < 2^b /\ (b = 0 \/ d >= 2^(b - 1))
BitLen(a) == IF a = <<>> THEN 0 ELSE 15 * (Len(a) - 1) + Bits(a[Len(a)])
Digit(a, i) == IF i <= Len(a) THEN a[i] ELSE 0
Odd(a) == a # <<>> /\ a[1] % 2 = 1

RECURSIVE AddFrom(_, _, _, _)
AddFrom(a, b, i, carry) ==
    IF i > Len(a) /\ i > Len(b) THEN (IF carry = 0 THEN <<>> ELSE <<carry>>)
    ELSE <<(Digit(a, i) + Digit(b, i) + carry) % Base>>
         \o AddFrom(a, b, i + 1, (Digit(a, i) + Digit(b, i) + carry) \div Base)

Add(a, b) == AddFrom(a, b, 1, 0)

\* a - b for a >= b
RECURSIVE SubFrom(_, _, _, _)
SubFrom(a, b, i, borrow) ==
    IF i > Len(a) THEN <<>>
    ELSE IF a[i] - Digit(b, i) - borrow < 0
         THEN <<a[i] - Digit(b, i) - borrow + Base>> \o SubFrom(a, b, i + 1, 1)
         ELSE <<a[i] - Digit(b, i) - borrow>> \o SubFrom(a, b, i + 1, 0)

Sub(a, b) == Trim(SubFrom(a, b, 1, 0))

\* a * d for a digit d
RECURSIVE MulSmallFrom(_, _, _, _)
MulSmallFrom(a, d, i, carry) ==
    IF i > Len(a) THEN (IF carry = 0 THEN <<>> ELSE <<carry>>)
    ELSE <<(a[i] * d + carry) % Base>>
         \o MulSmallFrom(a, d, i + 1, (a[i] * d + carry) \div Base)

MulSmall(a, d) == Trim(MulSmallFrom(a, d, 1, 0))

ShiftDigit(a) == IF a = <<>> THEN <<>> ELSE <<0>> \o a

\* a times the digits j.. of b
RECURSIVE MulFrom(_, _, _)
MulFrom(a, b, j) ==
    IF j > Len(b) THEN <<>>
    ELSE Add(MulSmall(a, b[j]), ShiftDigit(MulFrom(a, b, j + 1)))

Mul(a, b) == MulFrom(a, b, 1)

\* a * 2^k
Shl(a, k) ==
    IF a = <<>> THEN <<>>
    ELSE [i \in 1..(k \div 15) |-> 0] \o MulSmall(a, 2^(k % 15))

\* quotient and remainder of the digits i..1 of a, after remainder r, by d
RECURSIVE DivSmallFrom(_, _, _, _)
DivSmallFrom(a, d, i, r) ==
    IF i = 0 THEN [q |-> <<>>, r |-> r]
    ELSE LET rest == DivSmallFrom(a, d, i - 1, (r * Base + a[i]) % d)
         IN  [q |-> Append(rest.q, (r * Base + a[i]) \div d), r |-> rest.r]

Trimmed(d) == [q |-> Trim(d.q), r |-> d.r]
DivSmall(a, d) == Trimmed(DivSmallFrom(a, d, Len(a), 0))

\* a \div 2^k
Shr(a, k) == DivSmall(SubSeq(a, k \div 15 + 1, Len(a)), 2^(k % 15)).q

\* N * 2^u to Precision bits; q1 is N without its s - 1 lowest bits, so its
\* lowest bit is the first bit dropped
RoundUp(N, q1, s) == Odd(q1) /\ (Shl(q1, s - 1) # N \/ Odd(Shr(q1, 1)))

Carried(q, u) ==
    IF BitLen(q) > Precision THEN [m |-> Shr(q, 1), e |-> u + 1] ELSE [m |-> q, e |-> u]

Nearest(N, q1, s, u) ==
    Carried(IF RoundUp(N, q1, s) THEN Add(Shr(q1, 1), <<1>>) ELSE Shr(q1, 1), u + s)

Round(N, u) ==
    IF N = <<>> THEN Zero
    ELSE IF BitLen(N) <= Precision
    THEN [m |-> Shl(N, Precision - BitLen(N)), e |-> u - (Precision - BitLen(N))]
    ELSE Nearest(N, Shr(N, BitLen(N) - Precision - 1), BitLen(N) - Precision, u)

\* twice the quotient, with a last bit that says whether anything is left
Sticky(d) == Add(MulSmall(d.q, 2), IF d.r = 0 THEN <<>> ELSE <<1>>)

\* count / len(text)
float_div(c, n) == Round(Sticky(DivSmall(Shl(Small(c), DivBits), n)), -DivBits - 1)

float_mul(x, y) == Round(Mul(x.m, y.m), x.e + y.e)

float_add(x, y) ==
    IF x.m = <<>> THEN y
    ELSE IF y.m = <<>> THEN x
    ELSE IF x.e < y.e THEN Round(Add(Shl(y.m, y.e - x.e), x.m), x.e)
    ELSE Round(Add(Shl(x.m, x.e - y.e), y.m), y.e)

\* one more bit of log2(m / 2^SquareBits), 2^SquareBits <= m <
\* 2^(SquareBits + 1), after the bits f: it is 1 exactly when the square of
\* the mantissa reaches 2
Log2Bit(sq, f) ==
    IF BitLen(sq) > SquareBits + 1
    THEN [m |-> Shr(sq, 1), f |-> Add(MulSmall(f, 2), <<1>>)]
    ELSE [m |-> sq, f |-> MulSmall(f, 2)]

Log2Step(s) == Log2Bit(Shr(Mul(s.m, s.m), SquareBits), s.f)

Only(S) == CHOOSE x \in S : TRUE

\* n steps: the later half of them on what the earlier half leaves
RECURSIVE Log2Steps(_, _)
Log2Steps(s, n) ==
    IF n = 1 THEN Log2Step(s)
    ELSE Only({Log2Steps(half, n - n \div 2) : half \in {Log2Steps(s, n \div 2)}})

\* |E + f / 2^LogBits|, where f / 2^LogBits < 1
LogRound(E, f) ==
    IF E >= 0 THEN Round(Add(Shl(Small(E), LogBits), f), -LogBits)
    ELSE Round(Sub(Shl(Small(-E), LogBits), f), -LogBits)

\* |math.log2(x)| for x > 0
log2_magnitude(x) ==
    LogRound(x.e + Precision - 1,
             Log2Steps([m |-> Shl(x.m, SquareBits - (Precision - 1)), f |-> <<>>],
                       LogBits).f)

\* p = count / len(text); |p * math.log2(p)|
EntropyTerm(p) == float_mul(p, log2_magnitude(p))

MaxText == 6

\* the terms of the texts up to MaxText characters, each computed once
EntropyTerms == [n \in 2..MaxText |-> [c \in 1..n |-> EntropyTerm(float_div(c, n))]]

\* the loop over counts.values(): a Counter keeps its keys in the order of
\* their first occurrence
RECURSIVE EntropySum(_, _, _)
EntropySum(t, i, entropy) ==
    IF i > Len(t) THEN entropy
    ELSE IF \E j \in 1..(i - 1) : t[j] = t[i] THEN EntropySum(t, i + 1, entropy)
    ELSE EntropySum(t, i + 1, float_add(entropy, EntropyTerms[Len(t)][CountOf(t, t[i])]))

\* _calculate_entropy(text), as the float it returns
calculate_entropy_float(text) ==
    IF Len(text) < 2 THEN Zero ELSE EntropySum(Lower(text), 1, Zero)

NatLeq(a, b) ==
    \/ Len(a) < Len(b)
    \/ /\ Len(a) = Len(b)
       /\ \/ a = b
          \/ \E i \in 1..Len(a) :
                /\ a[i] < b[i]
                /\ \A j \in (i + 1)..Len(a) : a[j] = b[j]

\* x <= y
FloatLeq(x, y) ==
    \/ x.m = <<>>
    \/ /\ y.m # <<>>
       /\ \/ x.e < y.e
          \/ x.e = y.e /\ NatLeq(x.m, y.m)

---------------------------------------------------------------------------
(* Specification SpecEntropy: _calculate_entropy as a function of the      *)
(* text, on a text and on the same text with two characters exchanged      *)

EntropyChars == {"a", "b", "C"}
EntropyTexts == UNION {[1..n -> EntropyChars] : n \in 0..MaxText}

Swapped(text, i, j) == [text EXCEPT ![i] = text[j], ![j] = text[i]]

\* a text with itself, and with each exchange of two of its characters
EntropyInputs(t) ==
    {[text |-> t, permuted |-> t]}
        \cup {[text |-> t, permuted |-> Swapped(t, i, j)] : i, j \in 1..Len(t)}

Unmeasured == [measured |-> FALSE]

\* math.log2(float(k)), each computed once
Log2Of == [k \in 1..MaxText |-> log2_magnitude(float_div(k, 1))]

\* the characters Counter(text.lower()) counts
Alphabet(text) == CharsOf(Lower(text))

InitEntropy ==
    /\ global_mode = "iCloud"
    /\ redis = [k \in Keys |-> NoKey]
    /\ limiter = [w \in Workers |-> [h \in Hosts |-> NoKey]]
    /\ tasks = <<>>
    /\ last = NoRequest
    /\ ticks = 0
    /\ seen = {}
    /\ inflight = [pc \in Pcs |-> 0]
    /\ \E t \in EntropyTexts : vsub \in EntropyInputs(t)
    /\ vres = Unmeasured
    /\ InitDaemon

\* the entropy of the text drawn and of its permutation, and math.log2 of
\* the number of characters that occur
Measure ==
    /\ ~vres.measured
    /\ vres' = [measured |-> TRUE,
                entropy |-> calculate_entropy_float(vsub.text),
                permuted |-> calculate_entropy_float(vsub.permuted),
                bound |-> IF vsub.text = <<>> THEN Zero
                          ELSE Log2Of[Cardinality(Alphabet(vsub.text))]]
    /\ UNCHANGED <<daemon, global_mode, redis, limiter, tasks, last, ticks, seen, inflight, vsub>>

NextEntropy == Measure

SpecEntropy == InitEntropy /\ [][NextEntropy]_vars

---------------------------------------------------------------------------
(* Properties of the pipeline, checked under Spec                          *)

Range(f) == {f[i] : i \in DOMAIN f}

\* the calls of one submission in the order the specification gives them
StageOrder ==
    << "validate", "behavior.get", "behavior.setex", "rate.get", "rate.incr",
       "rate.expire", "verify_recaptcha_v3", "create_task" >>

StageOf(call) == CHOOSE i \in 1..Len(StageOrder) : StageOrder[i] = call

InStageOrder(trace) ==
    /\ Range(trace) \subseteq Range(StageOrder)
    /\ \A i, j \in 1..Len(trace) : i < j => StageOf(trace[i]) < StageOf(trace[j])

ProfileKeys == {BehaviorKey(ip) : ip \in IPs}
RateKeys == Keys \ ProfileKeys

Backend(mode) == IF mode = "postmark" THEN "postmark" ELSE "icloud"

\* one step seen from its end: the calls of the request answered last, and
\* what the step changed
C1_Step ==
    last' # NoRequest =>
        /\ InStageOrder(last'.trace)
        /\ last'.detail = "Invalid form submission" =>
              /\ last'.trace = <<"validate">>
              /\ redis' = redis
              /\ Len(tasks') = Len(tasks)
        /\ (last'.detail = "Suspicious submission pattern detected"
              \/ (last'.status = 500 /\ "rate.get" \notin Range(last'.trace))) =>
              /\ \A k \in RateKeys : redis'[k] = redis[k]
              /\ Range(last'.trace) \subseteq {"validate", "behavior.get", "behavior.setex"}
              /\ Len(tasks') = Len(tasks)
        /\ last'.status = 429 =>
              /\ "verify_recaptcha_v3" \notin Range(last'.trace)
              /\ "rate.incr" \notin Range(last'.trace)
              /\ redis' = redis
              /\ Len(tasks') = Len(tasks)
        /\ last'.detail \in {"reCAPTCHA token required", "Invalid reCAPTCHA token"} =>
              /\ "create_task" \notin Range(last'.trace)
              /\ Len(tasks') = Len(tasks)

\* C1: within one submission the calls are made in the order validation
\* (with Layer A), Layer B profile read and write, rate-limit read, increment
\* and expiry, captcha verification, dispatch; and a submission rejected at
\* a stage leaves what the later stages own untouched: a validation or
\* Layer A reject changes no key of the store, a Layer B reject or crash
\* changes no rate counter, a throttle makes no captcha call, and none of
\* them, nor a captcha failure, starts a dispatch task.
C1_StageOrder == [][C1_Step]_vars

\* C1's case: a submission that went through every stage up to the captcha
\* verification, failed it, and started no dispatch
C1_Witness ==
    /\ last # NoRequest
    /\ last.detail = "Invalid reCAPTCHA token"
    /\ last.trace = SubSeq(StageOrder, 1, 7)
    /\ tasks = <<>>

\* one step: the answer given with a task started, and the answer kept
\* while a task ends
C2_Step ==
    /\ (last' # NoRequest /\ last'.task # 0) =>
          /\ last'.status = 200
          /\ last'.detail = "Form submitted successfully"
    /\ (last' # NoRequest /\ "create_task" \in Range(last'.trace)) => last'.status = 200
    /\ (Len(tasks') = Len(tasks) /\ tasks' # tasks) => last' = last

\* C2: a submission whose dispatch task was started is answered with success,
\* and no end of that task (delivered, failed, never finished) changes the
\* answer that was given.
C2_FireAndForget == [][C2_Step]_vars

\* C2's case: the submission was answered with success and its send then failed
C2_Witness ==
    /\ last # NoRequest
    /\ last.status = 200
    /\ last.task \in 1..Len(tasks)
    /\ tasks[last.task].state = "failed"

\* one step: the tasks an answer starts, and the tasks that were there
C3_Step ==
    /\ (last' # NoRequest /\ last'.status = 200 /\ last' # last) =>
          /\ Len(tasks') = Len(tasks) + 1
          /\ last'.task = Len(tasks')
          /\ tasks'[Len(tasks')] = [backend |-> Backend(global_mode), state |-> "pending"]
    /\ (last' # NoRequest /\ last'.status # 200) =>
          /\ last'.task = 0
          /\ Len(tasks') = Len(tasks)
    /\ Len(tasks') # Len(tasks) =>
          /\ Len(tasks') = Len(tasks) + 1
          /\ last'.status = 200
          /\ last'.task = Len(tasks')
    /\ \A t \in 1..Len(tasks) :
          /\ t <= Len(tasks')
          /\ tasks'[t].backend = tasks[t].backend
          /\ tasks[t].state # "pending" => tasks'[t] = tasks[t]

\* C3: an accepted submission starts exactly one dispatch task, on the backend
\* the global mode names; a rejected submission starts none; and a task that
\* has ended, delivered or failed, is never run again.
C3_OneDispatch == [][C3_Step]_vars

\* C3's case: two accepted submissions, one task each; the first send failed
\* and stays failed, the second was delivered
C3_Witness ==
    /\ Len(tasks) = 2
    /\ tasks[1].state = "failed"
    /\ tasks[2].state = "sent"
    /\ last # NoRequest
    /\ last.status # 200

\* what the claims call a request: its channel, its Origin header, its fields
KnownKey(request) == \E i \in 1..Len(forms) : forms[i].key = request.form_key

OriginMissing(request) == request.origin = None \/ request.origin = <<>>

\* the request got past the worker's own limiter, the key and the Origin
\* checks, so that its fields were looked at
FieldsReached(r) ==
    /\ r.detail # "Rate limit exceeded: 5 per 1 minute"
    /\ r.status \notin {403, 404}

Absent(field) == field = None \/ ~StripNonEmpty(field)

\* a name, email, subject or body that is absent, blank, or an email without "@"
Malformed(form_data) ==
    \/ Absent(form_data.name)
    \/ Absent(form_data.email)
    \/ Absent(form_data.subject)
    \/ Absent(form_data.content)
    \/ "@" \notin Range(form_data.email)

HoneypotSet(form_data) == form_data.website # None /\ StripNonEmpty(form_data.website)

\* C7: a request for a channel key that no form has is answered with
\* not-found whatever its Origin and fields are, and a request for a known
\* key whose Origin header is missing is answered with forbidden.
C7_KeyAndOriginFirst ==
    last # NoRequest =>
        /\ ~KnownKey(last.request) => last.status = 404
        /\ (KnownKey(last.request) /\ OriginMissing(last.request)) => last.status = 403

\* C7's case: the sixth request of a minute from one address, for a key
\* that no form has, answered with 429
C7_Witness ==
    /\ last # NoRequest
    /\ ~KnownKey(last.request)
    /\ last.status = 429

\* one step that answers a request with malformed fields
C8_Step ==
    (last' # NoRequest /\ FieldsReached(last') /\ Malformed(Payloads[last'.request.form])) =>
        /\ last'.status = 400
        /\ redis' = redis
        /\ Len(tasks') = Len(tasks)

\* C8: a submission whose fields were looked at and whose name, email,
\* subject or body is absent or malformed is answered with 400, has changed
\* no key of the store and has started no dispatch.
C8_MalformedBadRequest == [][C8_Step]_vars

\* C8's case: a submission without a name field, answered with 500
C8_Witness ==
    /\ last # NoRequest
    /\ Payloads[last.request.form].name = None
    /\ FieldsReached(last)
    /\ last.status = 500

\* one step that answers a request with a filled honeypot
C9_Step ==
    (last' # NoRequest /\ HoneypotSet(Payloads[last'.request.form])) =>
        /\ last'.status \in {400, 403, 404, 429, 500}
        /\ Range(last'.trace) \subseteq {"validate"}
        /\ last'.task = 0
        /\ redis' = redis
        /\ Len(tasks') = Len(tasks)

\* C9: a submission whose honeypot field is filled is never accepted,
\* whatever its other fields and whatever the store holds, and it reaches
\* neither Layer B, nor the rate limiter, nor the captcha, nor dispatch: the
\* store and the tasks are as they were before it.
C9_Honeypot == [][C9_Step]_vars

\* C9's case: a submission with valid fields, a captcha token and a filled
\* honeypot, validated while the store holds a profile, and refused
C9_Witness ==
    /\ last # NoRequest
    /\ last.request.form = "honeytok"
    /\ last.trace = <<"validate">>
    /\ last.status = 400
    /\ \E k \in ProfileKeys : redis[k].found

\* a request that validate() rejected: its fields were looked at, the
\* submission was built, and a field rule, the honeypot rule or a Layer A
\* rule raised
ValidationRejected(r) ==
    /\ r # NoRequest
    /\ FieldsReached(r)
    /\ Submissions[r.request.form].exc = ""
    /\ Validations[r.request.form] # "ok"

\* two requests answered one after the other, both rejected by validate()
C12_Step ==
    (ValidationRejected(last) /\ ValidationRejected(last')) =>
        /\ last'.status = last.status
        /\ last'.detail = last.detail

HasCaptchaPolicy(request) ==
    \E i \in 1..Len(forms) :
        forms[i].key = request.form_key /\ forms[i].captcha # NoCaptcha

TokenMissing(request) ==
    Payloads[request.form].captcha_token = None \/ Payloads[request.form].captcha_token = <<>>

\* one step on a channel with a captcha policy: a dispatch started only for
\* a token that the provider verified, so that the same request in the same
\* state is rejected with 400 when the provider reports a failure and starts
\* nothing when the provider cannot be asked; a request that reached the
\* captcha stage without a token is answered 400
C15_Step ==
    /\ (Len(tasks') > Len(tasks) /\ HasCaptchaPolicy(last'.request)) =>
          /\ ~TokenMissing(last'.request)
          /\ "verify_recaptcha_v3" \in Range(last'.trace)
          /\ LET failed == submit_form(last'.request, global_mode, "failure", redis, limiter)
                 broken == submit_form(last'.request, global_mode, "error", redis, limiter)
             IN  /\ failed.status = 400 /\ failed.task = NoTask
                 /\ broken.status # 200 /\ broken.task = NoTask
    /\ (last' # last /\ HasCaptchaPolicy(last'.request) /\ TokenMissing(last'.request)
                     /\ "rate.expire" \in Range(last'.trace)) =>
          /\ last'.status = 400
          /\ Len(tasks') = Len(tasks)
    /\ (last'.status = 200 /\ last' # last) => Len(tasks') > Len(tasks)

\* C15: on a channel with a captcha policy a submission is accepted and
\* dispatched only with a token that the provider verified as successful; a
\* missing token and a failure reported by the provider give 400 and no
\* dispatch.
C15_CaptchaRequired == [][C15_Step]_vars

\* C15's case: a submission with a token on the channel with a captcha
\* policy, verified and accepted
C15_Witness ==
    /\ last # NoRequest
    /\ HasCaptchaPolicy(last.request)
    /\ ~TokenMissing(last.request)
    /\ "verify_recaptcha_v3" \in Range(last.trace)
    /\ last.status = 200
    /\ last.task > 0

---------------------------------------------------------------------------
(* Properties of the rate limit, checked under SpecWindow                  *)

RateCount(rs, key) == IF rs[key].found THEN rs[key].val ELSE 0

OwnCounter(rs, request) == RateCount(rs, RateKey(get_real_ip(request), request.form_key))

\* a submission that nothing but the rate limit can stop: valid fields, an
\* allowed Origin, a channel without captcha policy
OtherwiseAcceptable(request) ==
    /\ request.form_key = "contact-key"
    /\ request.origin = OriginExample
    /\ request.form = "good"

\* one step that answers an otherwise acceptable request, against the
\* counter as it was before the step
C4_Step ==
    (last' # last /\ OtherwiseAcceptable(last'.request)) =>
        IF OwnCounter(redis, last'.request) < 5
        THEN last'.status = 200
        ELSE last'.status = 429

\* C4: an otherwise acceptable submission is accepted while the counter of
\* its (origin, channel) holds fewer than 5 submissions of the running
\* 60-second window, which includes the time after the window has elapsed
\* and the counter is gone, and is answered with 429 when it holds 5.
C4_FiveThenThrottle == [][C4_Step]_vars

\* C4's case: the second acceptable submission of an origin to a channel
\* whose counter holds 1, answered with 500
C4_Witness ==
    /\ last # NoRequest
    /\ OtherwiseAcceptable(last.request)
    /\ OwnCounter(redis, last.request) = 1
    /\ last.status = 500
    /\ last.trace = <<"validate", "behavior.get">>

\* one step that answers a request, against the pairs seen before the step
C6_Step == ~(last' # last /\ last'.status = 429 /\ Pair(last'.request) \notin seen)

\* C6: a submission is never throttled when its origin has not submitted to
\* its channel before: what other origins sent, and what the same origin
\* sent to other channels, does not count against it.
C6_PerOriginAndChannel == [][C6_Step]_vars

\* C6's case: a throttled submission of an origin whose counter for the
\* channel does not exist, after another origin has submitted
C6_Witness ==
    /\ last # NoRequest
    /\ last.status = 429
    /\ OwnCounter(redis, last.request) = 0
    /\ \E p \in seen : p[1] # get_real_ip(last.request)

---------------------------------------------------------------------------
(* Property of the rate limit under concurrency, checked under SpecConc    *)

\* C5: whatever the interleaving of concurrent submissions of one origin to
\* one channel, the counter of that origin and channel never counts more
\* than 5 submissions past the rate-limit stage before it expires.
C5_AtMostFive == \A k \in RateKeys : RateCount(redis, k) <= 5

\* C5's case: six submissions counted by one counter, all six accepted
C5_Witness ==
    /\ RateCount(redis, RateKey(ConcIp, "contact-key")) = 6
    /\ Len(tasks) = 6

---------------------------------------------------------------------------
(* Properties of validate(), checked under SpecValidate                    *)

\* the bounds of the fields: each non-blank, the name of at most 100
\* characters, the email with "@" and of at most 254, the subject of at
\* most 200, the body of at most 10000, and the honeypot blank
NonBlank(text) == \E i \in 1..Len(text) : text[i] \notin Whitespace

InBounds(self) ==
    /\ NonBlank(self.name) /\ Len(self.name) <= 100
    /\ NonBlank(self.email) /\ "@" \in Range(self.email) /\ Len(self.email) <= 254
    /\ NonBlank(self.subject) /\ Len(self.subject) <= 200
    /\ NonBlank(self.content) /\ Len(self.content) <= 10000
    /\ (self.website = None \/ ~NonBlank(self.website))

RuleOrder == <<"Invalid name", "Invalid email", "Invalid subject", "Invalid content", "Bot detected">>

Violated(self) ==
    <<~NonBlank(self.name) \/ Len(self.name) > 100,
      ~NonBlank(self.email) \/ "@" \notin Range(self.email) \/ Len(self.email) > 254,
      ~NonBlank(self.subject) \/ Len(self.subject) > 200,
      ~NonBlank(self.content) \/ Len(self.content) > 10000,
      self.website # None /\ NonBlank(self.website)>>

ViolatedRules(self) == {i \in 1..Len(RuleOrder) : Violated(self)[i]}

---------------------------------------------------------------------------
(* Properties of Layer B, checked under SpecProfile                        *)

\* a submission whose name and body both look random to Layer B
RandomSubmission(p) ==
    RandomLooking[Payloads[p].name] /\ RandomLooking[Payloads[p].content]

\* the origin sent exactly two submissions, both random-looking, from two
\* email domains
TwoRandomSent(history, ip) ==
    \E p, q \in PayloadNames :
        /\ Sent(history, ip) = {<<ip, 1, p>>, <<ip, 2, q>>}
        /\ RandomSubmission(p) /\ RandomSubmission(q)
        /\ EmailDomain(Payloads[p].email) # EmailDomain(Payloads[q].email)

\* one step that answers the third submission of an origin
C13_Step ==
    (seen' # seen /\ TwoRandomSent(seen, get_real_ip(last'.request))) =>
        /\ last'.status = 400
        /\ last'.detail = "Suspicious submission pattern detected"

\* C13: after two submissions of an origin with random-looking name and
\* body and two email domains, the third submission of that origin is
\* answered as a suspicious pattern, whatever it looks like itself.
C13_ThirdFlagged == [][C13_Step]_vars

\* C13's case: an ordinary third submission after two random-looking ones
\* of the same origin, answered with 500
C13_Witness ==
    /\ last # NoRequest
    /\ last.request.form = "good"
    /\ \E ip \in IPs :
          /\ ip = get_real_ip(last.request)
          /\ <<ip, 3, "good">> \in seen
          /\ TwoRandomSent(seen \ {<<ip, 3, "good">>}, ip)
    /\ last.status = 500


\* the profile of an origin as the store holds it, empty when there is none
ProfileOf(rs, ip) ==
    IF rs[BehaviorKey(ip)].found THEN rs[BehaviorKey(ip)].val ELSE NewPatternData

\* the profile after the step holds the submission: one more entry, which is
\* this submission, the counters moved by what it looks like, its email
\* domain, and a fresh expiry of 24 hours
Recorded(rs_before, rs_after, ip, p) ==
    LET before == ProfileOf(rs_before, ip)
        after == ProfileOf(rs_after, ip)
        n == Len(after.submissions)
    IN  /\ rs_after[BehaviorKey(ip)].found
        /\ rs_after[BehaviorKey(ip)].ttl = 86400
        /\ n = Len(before.submissions) + 1
        /\ after.submissions[n].name = Payloads[p].name
        /\ after.submissions[n].content = Payloads[p].content
        /\ after.random_names =
              before.random_names + (IF RandomLooking[Payloads[p].name] THEN 1 ELSE 0)
        /\ after.random_content =
              before.random_content + (IF RandomLooking[Payloads[p].content] THEN 1 ELSE 0)
        /\ EmailDomain(Payloads[p].email) \in after.email_domains.elems

\* one step that answers a submission that passed Layer A
C14_Step ==
    (seen' # seen /\ "validate" \in Range(last'.trace)
                  /\ Validations[last'.request.form] = "ok") =>
        Recorded(redis, redis', get_real_ip(last'.request), last'.request.form)

\* C14: every submission that passes Layer A is recorded in the profile of
\* its origin, the first of an origin and every later one alike: a history
\* entry is appended, the counters are updated, the email domain is kept
\* and the expiry is set to 24 hours again.
C14_AlwaysRecorded == [][C14_Step]_vars

\* C14's case: the second submission of an origin passed Layer A and the
\* profile still holds the first submission only
C14_Witness ==
    /\ last # NoRequest
    /\ "validate" \in Range(last.trace)
    /\ Validations[last.request.form] = "ok"
    /\ \E ip \in IPs :
          /\ ip = get_real_ip(last.request)
          /\ Cardinality(Sent(seen, ip)) = 2
          /\ Len(ProfileOf(redis, ip).submissions) = 1


---------------------------------------------------------------------------
(* Properties of the origin check, checked under SpecOrigin                *)

\* the Origin header without its scheme, and the allowed domains of the
\* channel of a request
OriginDomain(request) == Remove(Remove(request.origin, SchemeHttps), SchemeHttp)

AllowedDomains(request) ==
    UNION { Range(forms[i].allowed_domains) : i \in {j \in 1..Len(forms) : forms[j].key = request.form_key} }

\* the request got past the origin check: its key is known and the answer
\* is not forbidden
OriginPassed(r) == KnownKey(r.request) /\ r.status # 403

---------------------------------------------------------------------------
(* Properties of the poll loop, checked under SpecPoll                     *)

\* a step of the poll loop, as against mail arriving or being read by hand
LoopStep == poll' # poll \/ handled' # handled

\* one step of the poll loop: a message goes from unread to read only in the
\* turn that sent its reply
C17_Step ==
    LoopStep =>
        \A num \in MailIds :
            (mailbox[num] = "unseen" /\ mailbox'[num] = "seen") =>
                /\ handled'.num = num
                /\ handled'.sent
                /\ replies'[num] = replies[num] + 1

\* C17: the poll loop marks a message read only in the turn of the pass in
\* which the reply for that message was sent successfully; a fetch, a skip,
\* a failed extraction and a failed send leave every message as it was.
C17_ReadOnlyAfterReply == [][C17_Step]_vars

\* C17's case: a reply was sent for a message and the message is marked read
C17_Witness ==
    /\ handled.num > 0
    /\ handled.sent /\ handled.marked
    /\ mailbox[handled.num] = "seen"
    /\ replies[handled.num] = 1


\* a message that resolves to a reply template in the mode the daemon runs in
Matched(num) == Resolved[global_mode][num] \in {"reply", "missing fields"}

\* one step of the poll loop:
\*   a pass that lists messages lists every unread message;
\*   a turn that fetched a matched message tries the reply, however often
\*   it was tried before;
\*   a try that sent nothing leaves the message as it was
C18_Step ==
    LoopStep =>
        /\ (poll.pc = "sleep" /\ poll'.pc = "loop") =>
              \A num \in MailIds :
                  mailbox[num] = "unseen" => \E i \in 1..Len(poll'.queue) : poll'.queue[i] = num
        /\ (handled'.num > 0 /\ Matched(handled'.num)
                             /\ handled'.note \notin {"fetch raised", "fetch failed"}) =>
              handled'.attempted
        /\ (handled'.num > 0 /\ handled'.attempted /\ ~handled'.sent) =>
              mailbox'[handled'.num] = mailbox[handled'.num]

UnmatchedNotes == {"not for any instance", "no matching alias", "no matching response"}

\* one step of the poll loop: a turn that finds no alias or no subject for
\* a message sends nothing, and the pass that starts after such a turn does
\* not list that message again
C19_Step ==
    LoopStep =>
        /\ (handled'.num > 0 /\ handled'.note \in UnmatchedNotes) =>
              /\ ~handled'.sent
              /\ replies' = replies
        /\ (poll.pc = "sleep" /\ poll'.pc = "loop"
                /\ handled.num > 0 /\ handled.note \in UnmatchedNotes) =>
              \A i \in 1..Len(poll'.queue) : poll'.queue[i] # handled.num

\* C19: a message whose To address matches no alias, or whose subject
\* matches no subject of the matched alias, is dropped: no reply is sent for
\* it and no later pass takes it up again.
C19_UnmatchedDropped == [][C19_Step]_vars

\* C19's case: a message was skipped for want of an alias and the next pass
\* has it in its list again
C19_Witness ==
    /\ handled.num > 0
    /\ handled.note = "no matching alias"
    /\ poll.pc = "loop"
    /\ Head(poll.queue) = handled.num
    /\ replies[handled.num] = 0


\* a step in which a pass fails: the connection or the login raised, or the
\* turn of a message raised
PassFails ==
    /\ ~(poll.pc = "sleep" /\ poll'.pc = "loop")
    /\ \/ handled'.note = "IMAP Error"
       \/ handled'.num > 0 /\ handled'.raised

\* one step of the poll loop: the loop is asleep or inside a pass and never
\* ends; a failure ends the pass only, the loop sleeps with nothing left of
\* the pass, no flag changes in that step and no reply goes out after the
\* point of failure (only a failing store comes after a reply)
C20_Step ==
    LoopStep =>
        /\ poll'.pc \in {"sleep", "loop"}
        /\ PassFails =>
              /\ poll' = [pc |-> "sleep", queue |-> <<>>]
              /\ mailbox' = mailbox
              /\ handled'.note # "store raised" => replies' = replies

\* C20: a failure inside a pass, such as a failed login, ends that pass only:
\* nothing is sent or marked read after the failure, the loop sleeps and
\* starts the next pass, and no failure ever ends the loop.
C20_FailureEndsPassOnly == [][C20_Step]_vars

\* C20's case: the turn of a message raised, the pass ended there, and the
\* next pass is under way with that message in its list
C20_Witness ==
    /\ handled.num > 0
    /\ handled.raised
    /\ poll.pc = "loop"
    /\ \E i \in 1..Len(poll.queue) : poll.queue[i] = handled.num


---------------------------------------------------------------------------
(* Properties of the resolution, checked under SpecResolve                 *)

\* the aliases of RESPONSE_CONFIG that occur in a To header, by position
Occurring(header_to) ==
    {i \in 1..Len(RESPONSE_CONFIG) :
        Contains(Lower(RESPONSE_CONFIG[i].alias), Lower(header_to))}

\* the subject the prefixes are tried on: the Subject header, or in postmark
\* mode what follows the marker
Tried(mode, header_subject) ==
    IF mode = "postmark"
    THEN Strip(Remove(header_subject, PostmarkInquiry))
    ELSE header_subject

\* the subjects of an alias that a Subject header starts with, by position
Starting(mode, alias, header_subject) ==
    IF mode = "postmark" /\ ~Contains(PostmarkInquiryLower, Lower(header_subject))
    THEN {}
    ELSE {k \in 1..Len(RESPONSE_CONFIG[alias].subjects) :
            StartsWith(Tried(mode, header_subject), RESPONSE_CONFIG[alias].subjects[k])}

\* C21: resolution is first-match: of the aliases that occur in the To
\* address (ignoring case) the first in configuration order is chosen, of
\* the subjects of that alias that the subject starts with the first in
\* order is chosen, and a message resolves to one (alias, subject) pair or
\* to none.
C21_FirstMatch ==
    vres # Unrouted =>
        LET to == ResolveTos[vsub.to]
            subject == ResolveSubjects[vsub.subject]
            occurring == Occurring(to)
        IN  IF occurring = {} THEN vres = NoRoute
            ELSE LET alias == Least(occurring)
                     starting == Starting(vsub.mode, alias, subject)
                 IN  IF starting = {} THEN vres = NoRoute
                     ELSE /\ vres.alias = alias
                          /\ vres.subject = RESPONSE_CONFIG[alias].subjects[Least(starting)]

\* C21's case: two aliases occur in the To header, the subject starts with
\* two subjects of the first, and the message resolved to the first of each
C21_Witness ==
    /\ Cardinality(Occurring(ResolveTos[vsub.to])) = 2
    /\ vsub.to = "swapped"
    /\ Cardinality(Starting(vsub.mode, 1, ResolveSubjects[vsub.subject])) = 2
    /\ vres = [alias |-> 1, subject |-> TemplatePricing]


---------------------------------------------------------------------------
(* Properties of the closed loop, checked under SpecRoundTrip              *)

\* C22: when the mail composed for an accepted submission is polled, the
\* body handling and extract_fields return the name, the email and the
\* subject of the submission, in both modes, so that the reply goes to the
\* sender.
C22_RoundTrip ==
    vres.read =>
        /\ vres.fields.name = RoundTripSubmission(vsub).name
        /\ vres.fields.email = RoundTripSubmission(vsub).email
        /\ vres.fields.subject = RoundTripSubmission(vsub).subject

\* C22's case: the mail of an ordinary submission was read back in postmark
\* mode
C22_Witness ==
    /\ vres.read
    /\ vsub.mode = "postmark"
    /\ vsub.name = "alice" /\ vsub.subject = "hello"
    /\ vres.to = MailHello


---------------------------------------------------------------------------
(* Properties of the reply, checked under SpecPoll                         *)

\* a step that is the turn of a message
TurnStep == poll.pc = "loop" /\ LoopStep /\ handled'.num > 0

\* one turn of the loop: a copy for the Sent folder is tried in iCloud mode
\* only and after the transport took the reply; when the copy fails the
\* reply still counts, so the reply count goes up and the message is marked
\* read unless the store itself raises
C23_Step ==
    TurnStep =>
        LET num == handled'.num
        IN  /\ handled'.mirror # "none" => (global_mode = "iCloud" /\ handled'.sent)
            /\ global_mode = "postmark" => handled'.mirror = "none"
            /\ (global_mode = "iCloud" /\ handled'.sent) => handled'.mirror # "none"
            /\ handled'.mirror = "failed" =>
                  /\ handled'.sent
                  /\ replies'[num] = replies[num] + 1
                  /\ handled'.note \in {"replied", "store raised"}
                  /\ handled'.note = "replied" => mailbox'[num] = "seen"

\* C23: the copy to the Sent folder is tried only in iCloud mode and only
\* after the send succeeded; a failed copy never changes the outcome of the
\* send (the reply counts as sent and the message is marked read), and
\* postmark mode makes no copy.
C23_MirrorNeverFatal == [][C23_Step]_vars

\* C23's case: a reply went out in iCloud mode, the copy failed, and the
\* message is marked read
C23_Witness ==
    /\ handled.num > 0
    /\ global_mode = "iCloud"
    /\ handled.mirror = "failed"
    /\ handled.note = "replied"
    /\ mailbox[handled.num] = "seen"


---------------------------------------------------------------------------
(* Property of one worked submission, checked under Spec                   *)

\* the submission of the scenario: the direct client, channel contact-key
\* (allowed domain example.com, no captcha), Origin https://example.com,
\* name Alice Example, email alice@example.com, subject Hello, body
\* 'Just saying hi, loved the site.'
Scenario(request) ==
    /\ request.form_key = "contact-key"
    /\ request.origin = OriginExample
    /\ request.form = "scenario"
    /\ Payloads[request.form] =
           FormData(NameAlice, EmailAlice, SubjectHello, ContentLoved, None, None)

\* the requests the client's address has made in the running minute
MadeThisMinute(lim, request) ==
    LET slot == lim[request.worker][request.client_host]
    IN  IF slot.found THEN slot.val ELSE 0

\* one step that answers the scenario's submission
C24_Step ==
    (last' # last /\ Scenario(last'.request)) =>
        /\ MadeThisMinute(limiter, last'.request) = 0 =>
              /\ last'.status = 200
              /\ Len(tasks') = Len(tasks) + 1
              /\ last'.task = Len(tasks')
        /\ MadeThisMinute(limiter, last'.request) >= 5 => last'.status = 429

\* C24: the scenario's submission, sent as the first request of its minute,
\* is answered with success and starts exactly one dispatch; sent after five
\* requests of the same minute it is answered with 429.
C24_Scenario == [][C24_Step]_vars

\* C24's case: the scenario's submission was the first request of its
\* minute, and was answered 400 by validate() with no dispatch; the 24
\* letters of its body are what _is_random_length_pattern takes for random
C24_Witness ==
    /\ last # NoRequest
    /\ Scenario(last.request)
    /\ MadeThisMinute(limiter, last.request) = 1
    /\ last.status = 400
    /\ last.detail = "Invalid form submission"
    /\ last.trace = <<"validate">>
    /\ last.task = 0
    /\ tasks = <<>>
    /\ Len(Clean(ContentLoved)) = 24
    /\ _is_random_length_pattern(Clean(ContentLoved))


---------------------------------------------------------------------------
(* Property of the entropy, checked under SpecEntropy                      *)

\* C25: the entropy of a text equals the entropy of every permutation of
\* its characters, lies between 0 and log2 of the number of characters
\* that occur in it, and is 0 when the text is one character repeated.
\* (Two texts are permutations of each other when a chain of exchanges of
\* two characters leads from one to the other; a magnitude is never below
\* 0.)
C25_Entropy ==
    vres.measured =>
        /\ vres.entropy = vres.permuted
        /\ FloatLeq(vres.entropy, vres.bound)
        /\ Cardinality(Alphabet(vsub.text)) = 1 => vres.entropy = Zero

\* C25's case: 'aaabbc' and 'caabba', the same six characters; the two
\* entropies are within the bound and differ in the last bit of the mantissa
C25_Witness ==
    /\ vres.measured
    /\ vsub.text = <<"a", "a", "a", "b", "b", "C">>
    /\ vsub.permuted = <<"C", "a", "a", "b", "b", "a">>
    /\ FloatLeq(vres.entropy, vres.bound)
    /\ FloatLeq(vres.permuted, vres.bound)
    /\ vres.entropy.e = vres.permuted.e
    /\ vres.entropy.m = Add(vres.permuted.m, <<1>>)


---------------------------------------------------------------------------
(* Properties of the order of rate limit and captcha, checked under Spec   *)

\* a response of the captcha stage that is not a success: no token, a
\* failure reported by the provider, or a provider that cannot be asked
CaptchaFailed(r) ==
    /\ HasCaptchaPolicy(r.request)
    /\ \/ r.detail \in {"reCAPTCHA token required", "Invalid reCAPTCHA token"}
       \/ r.status = 500 /\ "verify_recaptcha_v3" \in Range(r.trace)

\* a step in which the handler ran: slowapi counted the request
HandlerStep == limiter' # limiter

\* C26 as stated: the captcha check comes before the rate-limit check, so a
\* submission that fails the captcha stage leaves the counter of its origin
\* and channel unchanged.
C26_Step ==
    (HandlerStep /\ CaptchaFailed(last')) =>
        /\ OwnCounter(redis', last'.request) = OwnCounter(redis, last'.request)
        /\ "rate.incr" \notin Range(last'.trace)

C26_CaptchaBeforeRateLimit == [][C26_Step]_vars

\* the rate-limit calls come first and the captcha stage follows them
RateLimitThenCaptcha(trace) ==
    \E i \in 1..Len(trace) :
        /\ trace[i] = "rate.expire"
        /\ \A j \in 1..Len(trace) : trace[j] = "verify_recaptcha_v3" => j > i

C26_AmendedStep ==
    (HandlerStep /\ CaptchaFailed(last')) =>
        /\ OwnCounter(redis', last'.request) = OwnCounter(redis, last'.request) + 1
        /\ redis'[RateKey(get_real_ip(last'.request), last'.request.form_key)].ttl = 60
        /\ RateLimitThenCaptcha(last'.trace)
        /\ Len(tasks') = Len(tasks)

\* C26: the rate-limit check comes before the captcha check: a submission
\* that fails the captcha stage (no token, a failure reported by the
\* provider, a provider that cannot be asked) has already been counted, the
\* counter of its origin and channel is one higher than before and expires
\* in 60 seconds, and nothing is dispatched.
C26_RateLimitBeforeCaptcha == [][C26_AmendedStep]_vars

\* C26's case: a submission whose token the provider rejected, answered 400
\* after the rate-limit calls, its counter at 1
C26_Witness ==
    /\ last # NoRequest
    /\ HasCaptchaPolicy(last.request)
    /\ last.status = 400
    /\ last.detail = "Invalid reCAPTCHA token"
    /\ last.trace = << "validate", "behavior.get", "behavior.setex", "rate.get",
                       "rate.incr", "rate.expire", "verify_recaptcha_v3" >>
    /\ OwnCounter(redis, last.request) = 1
    /\ tasks = <<>>


---------------------------------------------------------------------------
(* Property of the postmark mode, checked under SpecRoundTrip              *)

\* the subject of the submission drawn starts with a subject that the
\* alias of the channel has a reply template for
HasTemplate(v) ==
    matching_subject("iCloud", matching_alias(forms[1].to_email[1]),
                     RoundTripSubjects[v.subject]) # NoMatch

\* C27: in postmark mode the mail sent for an accepted submission carries a
\* subject that starts with 'Postmark Inquiry:', and when the submission's
\* subject has a reply template the poll loop of the same mode resolves
\* the mail to that template and to a reply: without that no pass ever
\* sends the auto-reply.
C27_PostmarkMarker ==
    (vres.read /\ vsub.mode = "postmark") =>
        /\ StartsWith(vres.subject, PostmarkInquiry)
        /\ HasTemplate(vsub) =>
              /\ matching_subject("postmark", matching_alias(vres.to), vres.subject) # NoMatch
              /\ Replying(vres.fields) = "reply"

\* C27's case: a submission with subject 'Pricing question' accepted in
\* postmark mode; its mail goes to the alias with the subject as submitted,
\* which the loop matches in iCloud mode and not in postmark mode
C27_Witness ==
    /\ vres.read
    /\ vsub.mode = "postmark"
    /\ HasTemplate(vsub)
    /\ vres.to = MailHello
    /\ vres.subject = SubjectPricing
    /\ ~Contains(PostmarkInquiryLower, Lower(vres.subject))
    /\ matching_subject("iCloud", matching_alias(vres.to), vres.subject) = TemplatePricing
    /\ matching_subject("postmark", matching_alias(vres.to), vres.subject) = NoMatch


---------------------------------------------------------------------------
(* Properties of failures and repeats in the poll loop, checked under      *)
(* SpecPoll                                                                *)

\* what a turn reports when handling its message failed
FailureNotes == {"fetch failed", "fetch raised", "header raised", "name raised", "send failed"}

\* one turn of the loop that fails on its message while other messages of
\* the batch wait: the pass goes on with the next of them
C28_Step ==
    (TurnStep /\ handled'.note \in FailureNotes /\ Len(poll.queue) > 1) =>
        poll' = [pc |-> "loop", queue |-> Tail(poll.queue)]

\* C28: a failure while handling one unread message of a batch affects only
\* that message: the pass goes on to the later messages of the batch, which
\* is what lets a well-formed matching message behind a failing one be
\* replied to.
C28_FailureIsolated == [][C28_Step]_vars

\* C28's case: in postmark mode the fetch of message 1 raised and the pass
\* ended there; message 2, well-formed and matching, is still unread and no
\* reply was tried for it
C28_Witness ==
    /\ global_mode = "postmark"
    /\ handled.num = 1
    /\ handled.note = "fetch raised"
    /\ poll = [pc |-> "sleep", queue |-> <<>>]
    /\ mailbox[1] = "unseen"
    /\ mailbox[2] = "unseen"
    /\ Resolved["postmark"][2] = "reply"
    /\ attempts[2] = 0
    /\ replies[2] = 0


\* C29: over all passes at most one reply is sent for each message, also
\* when marking it read, or a later step of the pass, fails after the send.
C29_AtMostOneReply == \A num \in MailIds : replies[num] <= 1

\* C29's case: the reply to message 1 went out, the store that marks it read
\* raised, and the next pass sent the reply again
C29_Witness ==
    /\ global_mode = "iCloud"
    /\ handled.num = 1
    /\ handled.sent
    /\ replies[1] = 2
    /\ attempts[1] = 2
    /\ \A num \in MailIds \ {1} : replies[num] = 0


---------------------------------------------------------------------------
(* Properties of the stored profiles, checked under SpecExpiry             *)

\* the entries of the history that carry the random-name flag
FlaggedNames(pattern_data) ==
    {i \in DOMAIN pattern_data.submissions : pattern_data.submissions[i].is_random_name}

\* the entries of the history that carry the random-content flag
FlaggedContent(pattern_data) ==
    {i \in DOMAIN pattern_data.submissions : pattern_data.submissions[i].is_random_content}

\* the counters are the numbers of flagged entries of the history, the
\* history holds at most 10 entries, and count / total is between 0 and 1
CountersMatchHistory(pattern_data) ==
    /\ Len(pattern_data.submissions) >= 1
    /\ Len(pattern_data.submissions) <= 10
    /\ pattern_data.random_names = Cardinality(FlaggedNames(pattern_data))
    /\ pattern_data.random_content = Cardinality(FlaggedContent(pattern_data))
    /\ pattern_data.random_names \in 0..Len(pattern_data.submissions)
    /\ pattern_data.random_content \in 0..Len(pattern_data.submissions)

---------------------------------------------------------------------------
(* Properties of the history of a profile, checked under SpecProfile       *)

\* how many entries a history holds after n submissions
Kept(n) == IF n > 10 THEN 10 ELSE n

\* the stored history of an origin holds the last Kept(n) of the n
\* submissions the origin made, in the order they arrived
HoldsMostRecent(rs, history, ip) ==
    LET n == Cardinality(Sent(history, ip))
        submissions == ProfileOf(rs, ip).submissions
    IN  /\ Len(submissions) = Kept(n)
        /\ \A i \in 1..Len(submissions) :
              \E p \in PayloadNames :
                  /\ <<ip, n - Kept(n) + i, p>> \in history
                  /\ submissions[i].name = Payloads[p].name
                  /\ submissions[i].email = Payloads[p].email
                  /\ submissions[i].content = Payloads[p].content

\* C31: after n submissions of one origin that reached Layer B while its
\* profile was alive, the stored history holds exactly min(n, 10) entries,
\* the most recent ones in the order they arrived.
C31_HistoryHolds == \A ip \in IPs : HoldsMostRecent(redis, seen, ip)

\* C31's case: an origin made an ordinary submission and then a
\* random-looking one, the second was answered 500 and the stored history
\* holds the first only
C31_Witness ==
    /\ last # NoRequest
    /\ last.status = 500
    /\ last.request.form = "rnd1"
    /\ \E ip \in IPs :
          /\ ip = get_real_ip(last.request)
          /\ Sent(seen, ip) = {<<ip, 1, "good">>, <<ip, 2, "rnd1">>}
          /\ Len(ProfileOf(redis, ip).submissions) = 1
          /\ ProfileOf(redis, ip).submissions[1].name = Payloads["good"].name


---------------------------------------------------------------------------
(* Properties of the first submission of a profile, checked under          *)
(* SpecExpiry                                                              *)

\* the answer of Layer B to a submission it flags
FlaggedByLayerB(response) ==
    /\ response.status = 400
    /\ response.detail = "Suspicious submission pattern detected"

\* one step that answers a submission of an origin that has no stored
\* profile: Layer B looked at it, did not flag it, and stored a profile of
\* one entry
C32_Step ==
    (seen' # seen /\ ~redis[BehaviorKey(get_real_ip(last'.request))].found) =>
        /\ "behavior.setex" \in Range(last'.trace)
        /\ ~FlaggedByLayerB(last')
        /\ Len(ProfileOf(redis', get_real_ip(last'.request)).submissions) = 1

\* C32: the first submission of an origin that has no stored profile, never
\* seen or expired after 24 hours, is never flagged by Layer B, whatever its
\* name, body and email are.
C32_FirstNeverFlagged == [][C32_Step]_vars

\* C32's case: a random-looking submission of an origin whose profile had
\* expired: it is the second the origin sent, the stored profile holds it
\* alone with both counters at 1, and it was accepted
C32_Witness ==
    /\ last # NoRequest
    /\ last.request.form = "rnd1"
    /\ last.status = 200
    /\ \E ip \in IPs :
          /\ ip = get_real_ip(last.request)
          /\ <<ip, 2, "rnd1">> \in seen
          /\ Len(ProfileOf(redis, ip).submissions) = 1
          /\ ProfileOf(redis, ip).submissions[1].name = Payloads["rnd1"].name
          /\ ProfileOf(redis, ip).random_names = 1
          /\ ProfileOf(redis, ip).random_content = 1


---------------------------------------------------------------------------
(* Properties of the answer to a submission that Layer B stops, checked    *)
(* under SpecProfile                                                       *)

\* the handler went into Layer B with the request and did not go on to the
\* rate limit
StoppedInLayerB(response) ==
    /\ "behavior.get" \in Range(response.trace)
    /\ "rate.get" \notin Range(response.trace)

\* the answer to a submission that validate() rejects (lines 599-602)
ValidationAnswer(response) ==
    /\ response.status = 400
    /\ response.detail = "Invalid form submission"

C33_Step == (seen' # seen /\ StoppedInLayerB(last')) => ValidationAnswer(last')

\* C33: a submission that Layer B stops gets the same response as one that
\* validation or Layer A rejects, so the response does not tell the caller
\* that the behavioural analysis stopped it.
C33_SameAnswer == [][C33_Step]_vars

\* C33's case: the second submission of an origin, random-looking like the
\* first, went into Layer B and no further, and its answer is not the one
\* of a validation rejection
C33_Witness ==
    /\ last # NoRequest
    /\ last.request.form = "rnd2"
    /\ last.trace = <<"validate", "behavior.get">>
    /\ ~ValidationAnswer(last)
    /\ last.detail = "Internal Server Error"
    /\ Sent(seen, get_real_ip(last.request)) =
          {<<get_real_ip(last.request), 1, "rnd1">>, <<get_real_ip(last.request), 2, "rnd2">>}


---------------------------------------------------------------------------
(* Properties of the profile under concurrent submissions, checked under   *)
(* SpecConc                                                                *)

\* no request is between two calls of the store
AllFinished == \A pc \in DOMAIN inflight : inflight[pc] = 0

\* C34: once all concurrent submissions of one origin have finished, each of
\* those that reached Layer B is in the stored profile: the history holds
\* one entry for each of them, up to 10, whatever the interleaving was.
C34_NoEntryLost ==
    AllFinished => Len(ProfileOf(redis, ConcIp).submissions) = Kept(Arrived)

\* C34's case: two submissions of the origin both read no profile, each
\* wrote a profile of its own entry and went on to be counted and accepted;
\* all have finished and the stored history holds one entry
C34_Witness ==
    /\ AllFinished
    /\ Arrived = 2
    /\ RateCount(redis, RateKey(ConcIp, "contact-key")) = 2
    /\ Len(tasks) = 2
    /\ Len(ProfileOf(redis, ConcIp).submissions) = 1


---------------------------------------------------------------------------
(* Properties of throttling over time, checked under SpecWindow            *)

\* one step that answers the first submission an origin ever made to a
\* channel: no 60 seconds hold more than one submission of the origin to
\* that channel
C35_Step == seen' # seen => last'.status # 429

\* C35: an origin whose submissions to one channel never number more than 5
\* in any 60 seconds is never throttled on that channel; in particular the
\* first submission of an origin to a channel is never answered 429.
C35_NeverThrottled == [][C35_Step]_vars

\* C35's case: the only submission an origin made to the support channel
\* is answered 429 by the limit of the route, which had counted five
\* requests from the address of the connection in the same minute
C35_Witness ==
    /\ last # NoRequest
    /\ last.request.form_key = "support-key"
    /\ last.status = 429
    /\ last.trace = <<>>
    /\ Pair(last.request) \in seen
    /\ ~redis[RateKey(get_real_ip(last.request), "support-key")].found
    /\ limiter[last.request.worker][last.request.client_host].found
    /\ limiter[last.request.worker][last.request.client_host].val = 5


---------------------------------------------------------------------------
(* Properties of a throttled origin, checked under SpecThrottle            *)

\* a request was answered in this step
Answered == last' # last

\* the origin was accepted on the channel before, was throttled on it
\* before, nothing counts against it now: its counter has expired and the
\* limit of the route lets the request in
ThrottleOver(request) ==
    /\ <<Pair(request), 200>> \in seen
    /\ <<Pair(request), 429>> \in seen
    /\ ~redis[RateKey(get_real_ip(request), request.form_key)].found
    /\ limiter_hit(limiter[request.worker], request.client_host).ok

\* one step that answers a request: a throttled one leaves every counter
\* and its expiry as they were, and one that comes when the throttle is
\* over is accepted
C36_Step ==
    /\ (Answered /\ last'.status = 429) => \A k \in RateKeys : redis'[k] = redis[k]
    /\ (Answered /\ ThrottleOver(last'.request)) => last'.status = 200

\* C36: a submission rejected as throttled leaves the counter and its expiry
\* unchanged, so an origin that kept submitting while throttled is accepted
\* again on the channel once 60 seconds have passed since its last accepted
\* submission.
C36_AcceptedAgain == [][C36_Step]_vars

\* C36's case: an origin was accepted, then throttled, and submitted again
\* when its counter had expired and a new minute of the route's limit began
\* with this request; the answer is 500
C36_Witness ==
    /\ last # NoRequest
    /\ last.status = 500
    /\ <<Pair(last.request), 200>> \in seen
    /\ <<Pair(last.request), 429>> \in seen
    /\ ~redis[RateKey(get_real_ip(last.request), last.request.form_key)].found
    /\ redis[BehaviorKey(get_real_ip(last.request))].found
    /\ limiter[last.request.worker][last.request.client_host].found
    /\ limiter[last.request.worker][last.request.client_host].val = 1
    /\ limiter[last.request.worker][last.request.client_host].ttl = 60


---------------------------------------------------------------------------
(* Properties of INSTANCE_EMAILS, checked under SpecInstance               *)

\* the instance emails that are configured: the pieces of the variable
\* that are not empty
Configured(value) == SelectSeq(getenv_instance_emails(value), LAMBDA e : e # Empty)

\* C37: when INSTANCE_EMAILS is unset or empty a poll pass returns before it
\* matches or replies to any message and the form handler does not start;
\* and the poll loop never finds a reply for a message whose To header holds
\* none of the configured instance emails.
C37_InstanceGuard ==
    vres # NotStarted =>
        /\ InstanceEnvs[vsub.env] \in {None, Empty} =>
              (vres.pass = "returned" /\ vres.start # "started")
        /\ vres.route.alias > 0 =>
              ForInstance(Configured(InstanceEnvs[vsub.env]), ResolveTos[vsub.to])

\* C37's case: INSTANCE_EMAILS is unset, the form handler did not start,
\* and the poll pass ran and found the reply of alias sales@example.com for
\* a message sent to it
C37_Witness ==
    /\ vsub.env = "unset"
    /\ vsub.to = "sales"
    /\ vsub.subject = "support"
    /\ vres # NotStarted
    /\ vres.start = "No configuration found for emails"
    /\ vres.pass = "ran"
    /\ vres.route.alias = 2
    /\ vres.route.subject = TemplateSupport

=============================================================================
